---- MODULE Spec2Model ----
(***************************************************************************)
(* Threadify: the posting engine (backend/app/services/post_x.py), the     *)
(* review/approve handlers (backend/app/web/routes.py), the submission     *)
(* handlers (web/routes.py, api/routes.py) and the services they call:     *)
(* canonicalize.py, duplicate_detection.py, budget.py.                     *)
(*                                                                         *)
(* Units: pacing and backoff delays are in tenths of a second, so that the *)
(* jitter bounds 2.5 s and 3.5 s are the integers 25 and 35.               *)
(* Tweet ids are positive integers; NoId (0) stands for Python's None.     *)
(* A Python str is a sequence of one-character strings.                    *)
(* Money is in units of 0.0001 USD, so that the cap 0.02 USD is 200.       *)
(***************************************************************************)
EXTENDS Integers, Sequences, FiniteSets, TLC

VARIABLES
    args,       \* args[t]: the arguments of task t's post_thread invocation
    th,         \* th[t]: post_thread's locals, its position and its result
    ps,         \* ps[t]: post_single's locals (payload, attempt, sleep)
    obs,        \* obs[t]: what the platform and the clock saw in this invocation
    chain,      \* chain[t]: what the platform saw over the chained invocations
    running,    \* the task the event loop is executing (0: loop idle)
    runs,       \* the Run table: runs[id] is the row of Run id
    tweets,     \* the Tweet table, in insertion order
    approvals,  \* approvals[id]: approve requests that took the transition
    response,   \* status code of the last response of a handler
    call        \* a service function's call: its arguments and its result

vars == <<args, th, ps, obs, chain, running, runs, tweets, approvals, response, call>>

postVars == <<args, th, ps, obs, chain, running>>
storeVars == <<runs, tweets, approvals, response>>
callVars == <<call>>

----------------------------------------------------------------------------
(* Bounds *)

NumTexts == 3          \* len(texts) of every invocation
MaxRetriesArg == 3     \* max_retries is drawn from 0..MaxRetriesArg
MaxInvocations == 2    \* invocations a caller chains (first call + resumes)
MaxRuns == 2           \* rows of the Run table
MaxApprovals == 2      \* approve requests counted per Run

Tasks == {1, 2}
Indices == 0 .. (NumTexts - 1)
NoId == 0
NoIndex == -1          \* failed_at = None

(* random.uniform(-0.5, 0.5) in tenths of a second: both ends and the middle *)
JitterSamples == {-5, 0, 5}

RECURSIVE Pow2(_)
Pow2(n) == IF n <= 0 THEN 1 ELSE 2 * Pow2(n - 1)

Last(s) == s[Len(s)]

(* ids of items 0..k-1 posted by earlier invocations *)
EarlierIds(k) == [i \in 1 .. k |-> i]

(* the id the platform assigns to the post it creates for item i in the   *)
(* n-th invocation of task t: fresh, never assigned twice                  *)
NewTweetId(t, n, i) == 1000 * t + 100 * n + i + 1

----------------------------------------------------------------------------
(* The remote platform, as seen through http_post *)

TweetResponses ==
    {"created", "created_noid", "429_reset", "429_noreset", "error", "transport_exc"}
UploadResponses == {"uploaded", "uploaded_noid", "upload_error", "transport_exc"}
MetadataResponses == {"meta_ok", "meta_error", "transport_exc"}

IsErrorStatus(r) ==
    r \in {"429_reset", "429_noreset", "error", "upload_error", "meta_error"}

(* http_post: an injected callable hands every response back to the caller; *)
(* _default_http_post calls raise_for_status(), so an error status reaches  *)
(* the caller as an exception.                                              *)
RaisesOnStatus(r) == IsErrorStatus(r)

Deliver(http_post, r) ==
    IF http_post = "default" /\ RaisesOnStatus(r) THEN "status_exc" ELSE r

IsException(d) == d \in {"transport_exc", "status_exc"}

----------------------------------------------------------------------------
(* post_thread / post_single *)

NoResult == [success |-> FALSE, tweet_ids |-> <<>>, failed_at |-> NoIndex, error |-> "none"]
NoRaise == [type |-> "none", msg |-> "none"]

ZeroPerIndex == [i \in Indices |-> 0]

InitObs ==
    [calls |-> ZeroPerIndex, fails |-> ZeroPerIndex, uploads |-> ZeroPerIndex,
     metas |-> ZeroPerIndex, paces |-> ZeroPerIndex, entered |-> ZeroPerIndex,
     replySent |-> [i \in Indices |-> NoId], newIds |-> <<>>,
     lastCall |-> "none", lastResp |-> "none", raised |-> NoRaise,
     failedItem |-> NoIndex]

InitPs == [attempt |-> 0, reply |-> NoId, media |-> FALSE, alt |-> FALSE,
           media_id |-> "none", delay |-> 0]

(* a seeding that restarts the loop at index 0 whatever resume_from is *)
SeedThread_FromZero(a) ==
    [pc |-> "loop", idx |-> 0,
     tweet_ids |-> a.previous_tweet_ids,
     last_tweet_id |-> IF a.previous_tweet_ids # <<>> THEN Last(a.previous_tweet_ids) ELSE NoId,
     result |-> NoResult]

(* a seeding that takes the first previous id as the reply target *)
SeedThread_FirstId(a) ==
    [pc |-> "loop", idx |-> a.resume_from,
     tweet_ids |-> a.previous_tweet_ids,
     last_tweet_id |-> IF a.previous_tweet_ids # <<>> THEN a.previous_tweet_ids[1] ELSE NoId,
     result |-> NoResult]

(* post_thread lines 182-183: seed the running list and the reply target *)
SeedThread(a) ==
    [pc |-> "loop", idx |-> a.resume_from,
     tweet_ids |-> a.previous_tweet_ids,
     last_tweet_id |-> IF a.previous_tweet_ids # <<>> THEN Last(a.previous_tweet_ids) ELSE NoId,
     result |-> NoResult]

IdleThread == [pc |-> "idle", idx |-> 0, tweet_ids |-> <<>>, last_tweet_id |-> NoId,
               result |-> NoResult]

ArgSpace ==
    [resume_from : 0 .. NumTexts,
     previous_tweet_ids : {EarlierIds(k) : k \in 0 .. NumTexts},
     media_first : BOOLEAN, media_alt : BOOLEAN,
     max_retries : 0 .. MaxRetriesArg,
     http_post : {"injected", "default"}]

IdleArgs == [resume_from |-> 0, previous_tweet_ids |-> <<>>, media_first |-> FALSE,
             media_alt |-> FALSE, max_retries |-> 0, http_post |-> "injected"]

InitChain(a) == [invocations |-> 1, posted |-> ZeroPerIndex,
                 first_from |-> a.resume_from, first_prev |-> Len(a.previous_tweet_ids)]

EmptyStore == <<>>
NoTweets == <<>>
NoApprovals == [i \in 1 .. MaxRuns |-> 0]

(* no service function is being called *)
NoCall == [fn |-> "none", pc |-> "idle"]

Init ==
    /\ \E a \in ArgSpace :
          /\ args = (1 :> a) @@ (2 :> IdleArgs)
          /\ th = (1 :> SeedThread(a)) @@ (2 :> IdleThread)
          /\ chain = (1 :> InitChain(a)) @@ (2 :> InitChain(IdleArgs))
    /\ ps = [t \in Tasks |-> InitPs]
    /\ obs = [t \in Tasks |-> InitObs]
    /\ running = 0
    /\ runs = EmptyStore
    /\ tweets = NoTweets
    /\ approvals = NoApprovals
    /\ response = 0
    /\ call = NoCall

(* Two post_thread invocations started on the same event loop: task 1    *)
(* posts a fresh thread with or without media, task 2 a fresh thread       *)
(* without media and without retries                                       *)
ConcArgSpace ==
    {[resume_from |-> 0, previous_tweet_ids |-> <<>>,
      media_first |-> m, media_alt |-> m,
      max_retries |-> MaxRetriesArg, http_post |-> "injected"] : m \in BOOLEAN}

ConcOtherArgs ==
    [resume_from |-> 0, previous_tweet_ids |-> <<>>, media_first |-> FALSE,
     media_alt |-> FALSE, max_retries |-> 1, http_post |-> "injected"]

ConcInit ==
    /\ \E a \in ConcArgSpace : args = (1 :> a) @@ (2 :> ConcOtherArgs)
    /\ th = [t \in Tasks |-> SeedThread(args[t])]
    /\ chain = [t \in Tasks |-> InitChain(args[t])]
    /\ ps = [t \in Tasks |-> InitPs]
    /\ obs = [t \in Tasks |-> InitObs]
    /\ running = 0
    /\ runs = EmptyStore
    /\ tweets = NoTweets
    /\ approvals = NoApprovals
    /\ response = 0
    /\ call = NoCall

(* The event loop runs one task at a time; a task keeps the loop until it  *)
(* awaits or returns.                                                      *)
CanRun(t) == running = t \/ running = 0

(* a failed result that reports how many ids were collected, not the index *)
FailedResult_CountsIds(s, msg) ==
    [success |-> FALSE, tweet_ids |-> s.tweet_ids, failed_at |-> Len(s.tweet_ids),
     error |-> msg]

(* post_thread lines 209-226: stop and report the failing index *)
FailedResult(s, msg) ==
    [success |-> FALSE, tweet_ids |-> s.tweet_ids, failed_at |-> s.idx, error |-> msg]

(* a success result that leaves the loop index in failed_at *)
SuccessResult_KeepsIndex(s) ==
    [success |-> TRUE, tweet_ids |-> s.tweet_ids, failed_at |-> s.idx, error |-> "none"]

(* post_thread line 228 *)
SuccessResult(s) ==
    [success |-> TRUE, tweet_ids |-> s.tweet_ids, failed_at |-> NoIndex, error |-> "none"]

(* post_thread lines 209-215 (no tweet id) and 220-226 (PostError or      *)
(* RateLimitError caught): return the failed result                        *)
ReturnFailed(t, msg) ==
    /\ th' = [th EXCEPT ![t].pc = "done", ![t].result = FailedResult(th[t], msg)]
    /\ running' = 0

(* any other exception leaves post_single and post_thread unhandled *)
Propagate(t) ==
    /\ th' = [th EXCEPT ![t].pc = "crashed"]
    /\ running' = 0

(* a retry loop whose later passes start above the media upload *)
EnterAttempt_Reupload(t, n, o) ==
    IF n < args[t].max_retries
    THEN /\ th' = [th EXCEPT ![t].pc = IF n > 0 /\ ps[t].media THEN "upload" ELSE "post"]
         /\ obs' = [obs EXCEPT ![t] = o]
         /\ running' = t
    ELSE LET e == [type |-> "PostError", msg |-> "Failed to post tweet after retries"] IN
         /\ obs' = [obs EXCEPT ![t] = [o EXCEPT !.raised = e, !.failedItem = th[t].idx]]
         /\ ReturnFailed(t, e.msg)

(* a retry loop over range(max_retries + 1) *)
EnterAttempt_OneMore(t, n, o) ==
    IF n <= args[t].max_retries
    THEN /\ th' = [th EXCEPT ![t].pc = "post"]
         /\ obs' = [obs EXCEPT ![t] = o]
         /\ running' = t
    ELSE LET e == [type |-> "PostError", msg |-> "Failed to post tweet after retries"] IN
         /\ obs' = [obs EXCEPT ![t] = [o EXCEPT !.raised = e, !.failedItem = th[t].idx]]
         /\ ReturnFailed(t, e.msg)

(* post_single lines 90 and 138: enter the retry loop at attempt n, or fall *)
(* out of it when range(max_retries) is exhausted                           *)
EnterAttempt(t, n, o) ==
    IF n < args[t].max_retries
    THEN /\ th' = [th EXCEPT ![t].pc = "post"]
         /\ obs' = [obs EXCEPT ![t] = o]
         /\ running' = t
    ELSE LET e == [type |-> "PostError", msg |-> "Failed to post tweet after retries"] IN
         /\ obs' = [obs EXCEPT ![t] = [o EXCEPT !.raised = e, !.failedItem = th[t].idx]]
         /\ ReturnFailed(t, e.msg)

(* post_thread line 185 with the loop exhausted, line 228 *)
ThreadReturn(t) ==
    /\ th[t].pc = "loop" /\ CanRun(t)
    /\ th[t].idx >= NumTexts
    /\ th' = [th EXCEPT ![t].pc = "done", ![t].result = SuccessResult(th[t])]
    /\ running' = 0
    /\ UNCHANGED <<args, ps, obs, chain>>

(* a pacing test that only exempts index 0 *)
NeedsPacing_AfterIndexZero(i, resume_from) == i > 0

(* post_thread line 193: is a pacing delay due before item i? *)
NeedsPacing(i, resume_from) == i > resume_from

(* post_thread line 195: 3.0 + random.uniform(-0.5, 0.5) *)
PaceDelay(j) == 30 + j

ThreadPace(t) ==
    /\ th[t].pc = "loop" /\ CanRun(t)
    /\ th[t].idx < NumTexts
    /\ NeedsPacing(th[t].idx, args[t].resume_from)
    /\ \E j \in JitterSamples :
          ps' = [ps EXCEPT ![t].delay = PaceDelay(j)]
    /\ th' = [th EXCEPT ![t].pc = "pacing"]
    /\ obs' = [obs EXCEPT ![t].paces[th[t].idx] = @ + 1]
    /\ running' = 0        \* await sleeper(delay) yields to the event loop
    /\ UNCHANGED <<args, chain>>

(* post_thread line 193 false: the first item of the invocation *)
ThreadFirst(t) ==
    /\ th[t].pc = "loop" /\ CanRun(t)
    /\ th[t].idx < NumTexts
    /\ ~NeedsPacing(th[t].idx, args[t].resume_from)
    /\ th' = [th EXCEPT ![t].pc = "single"]
    /\ running' = t
    /\ UNCHANGED <<args, ps, obs, chain>>

(* the awaited sleeper completes and the event loop resumes the task *)
PaceDone(t) ==
    /\ th[t].pc = "pacing" /\ running = 0
    /\ th' = [th EXCEPT ![t].pc = "single"]
    /\ ps' = [ps EXCEPT ![t].delay = 0]
    /\ running' = t
    /\ UNCHANGED <<args, obs, chain>>

(* post_thread lines 186-207 and post_single lines 76-90: pick the media,  *)
(* build the payload, then upload or enter the retry loop                  *)
PostSingleBegin(t) ==
    /\ th[t].pc = "single" /\ running = t
    /\ LET i == th[t].idx
           media == (i = 0) /\ args[t].media_first
           alt == (i = 0) /\ args[t].media_alt
           reply == th[t].last_tweet_id
           o == [obs[t] EXCEPT !.entered[i] = @ + 1]
       IN /\ ps' = [ps EXCEPT ![t] = [InitPs EXCEPT !.reply = reply, !.media = media,
                                                    !.alt = alt]]
          /\ IF media
             THEN /\ th' = [th EXCEPT ![t].pc = "upload"]
                  /\ obs' = [obs EXCEPT ![t] = o]
                  /\ running' = t
             ELSE EnterAttempt(t, 0, o)
    /\ UNCHANGED <<args, chain>>

(* _upload_media lines 254-264 *)
UploadMedia(t) ==
    /\ th[t].pc = "upload" /\ running = t
    /\ \E r \in UploadResponses :
         LET d == Deliver(args[t].http_post, r)
             i == th[t].idx
             o == [obs[t] EXCEPT !.uploads[i] = @ + 1, !.lastCall = "upload",
                                 !.lastResp = r]
         IN CASE IsException(d) ->
                   /\ obs' = [obs EXCEPT ![t] = [o EXCEPT
                                 !.raised = [type |-> "Exception", msg |-> "upload transport"],
                                 !.failedItem = i]]
                   /\ Propagate(t)
                   /\ UNCHANGED ps
              [] d = "upload_error" ->
                   LET e == [type |-> "PostError", msg |-> "Failed to upload media"] IN
                   /\ obs' = [obs EXCEPT ![t] = [o EXCEPT !.raised = e, !.failedItem = i]]
                   /\ ReturnFailed(t, e.msg)
                   /\ UNCHANGED ps
              [] d = "uploaded" /\ ps[t].alt ->
                   /\ ps' = [ps EXCEPT ![t].media_id = "media"]
                   /\ th' = [th EXCEPT ![t].pc = "meta"]
                   /\ obs' = [obs EXCEPT ![t] = o]
                   /\ running' = t
              [] OTHER ->
                   /\ ps' = [ps EXCEPT ![t].media_id = IF d = "uploaded" THEN "media" ELSE ""]
                   /\ EnterAttempt(t, 0, o)
    /\ UNCHANGED <<args, chain>>

(* _upload_media lines 267-277: the alt text call; its response is ignored *)
AttachAltText(t) ==
    /\ th[t].pc = "meta" /\ running = t
    /\ \E r \in MetadataResponses :
         LET d == Deliver(args[t].http_post, r)
             i == th[t].idx
             o == [obs[t] EXCEPT !.metas[i] = @ + 1, !.lastCall = "metadata",
                                 !.lastResp = r]
         IN IF IsException(d)
            THEN /\ obs' = [obs EXCEPT ![t] = [o EXCEPT
                                !.raised = [type |-> "Exception", msg |-> "metadata transport"],
                                !.failedItem = i]]
                 /\ Propagate(t)
            ELSE EnterAttempt(t, 0, o)
    /\ UNCHANGED <<args, ps, chain>>

(* post_single lines 104, 117, 133: is another attempt left? *)
RetriesRemain(attempt, max_retries) == attempt < max_retries - 1

(* a wait of one second before every retry *)
BackoffDelay_Constant(attempt) == 10

(* time.sleep(2**attempt), lines 106, 119, 134 *)
BackoffDelay(attempt) == 10 * Pow2(attempt)

(* post_single lines 108-110, 121 and 136: what the last attempt raises *)
FinalError(d) ==
    CASE d = "429_reset" ->
           [type |-> "RateLimitError", msg |-> "Rate limit exceeded. Reset at: reset_time"]
      [] d = "429_noreset" ->
           [type |-> "RateLimitError", msg |-> "Rate limit exceeded. Reset at: unknown"]
      [] d = "error" ->
           [type |-> "PostError",
            msg |-> "Failed to post tweet: Failed to post tweet: platform message"]
      [] d = "status_exc" ->
           [type |-> "PostError", msg |-> "Failed to post tweet: HTTPStatusError"]
      [] OTHER ->
           [type |-> "PostError", msg |-> "Failed to post tweet: transport failure"]

(* post_single lines 90-136, one pass of the retry loop, and post_thread   *)
(* lines 209-226 on its outcome                                            *)
PostTweet(t) ==
    /\ th[t].pc = "post" /\ running = t
    /\ \E r \in TweetResponses :
         LET d == Deliver(args[t].http_post, r)
             i == th[t].idx
             o == [obs[t] EXCEPT !.calls[i] = @ + 1, !.replySent[i] = ps[t].reply,
                                 !.lastCall = "tweet", !.lastResp = r]
             id == NewTweetId(t, chain[t].invocations, i)
         IN CASE d = "created" ->
                   /\ th' = [th EXCEPT ![t].pc = "loop",
                                       ![t].tweet_ids = Append(@, id),
                                       ![t].last_tweet_id = id,
                                       ![t].idx = @ + 1]
                   /\ obs' = [obs EXCEPT ![t] = [o EXCEPT !.newIds = Append(@, <<i, id>>)]]
                   /\ chain' = [chain EXCEPT ![t].posted[i] = @ + 1]
                   /\ running' = t
                   /\ UNCHANGED ps
              [] d = "created_noid" ->
                   /\ obs' = [obs EXCEPT ![t] = [o EXCEPT !.failedItem = i]]
                   /\ ReturnFailed(t, "Unknown error")
                   /\ UNCHANGED <<ps, chain>>
              [] OTHER ->
                   IF RetriesRemain(ps[t].attempt, args[t].max_retries)
                   THEN /\ th' = [th EXCEPT ![t].pc = "backoff"]
                        /\ ps' = [ps EXCEPT ![t].delay = BackoffDelay(ps[t].attempt)]
                        /\ obs' = [obs EXCEPT ![t] = [o EXCEPT !.fails[i] = @ + 1]]
                        /\ running' = t      \* time.sleep keeps the event loop
                        /\ UNCHANGED chain
                   ELSE /\ obs' = [obs EXCEPT ![t] = [o EXCEPT !.fails[i] = @ + 1,
                                                              !.raised = FinalError(d),
                                                              !.failedItem = i]]
                        /\ ReturnFailed(t, FinalError(d).msg)
                        /\ UNCHANGED <<ps, chain>>
    /\ UNCHANGED args

(* time.sleep returns; `continue` takes the next attempt of range(max_retries) *)
BackoffDone(t) ==
    /\ th[t].pc = "backoff" /\ running = t
    /\ ps' = [ps EXCEPT ![t].attempt = @ + 1, ![t].delay = 0]
    /\ EnterAttempt(t, ps[t].attempt + 1, obs[t])
    /\ UNCHANGED <<args, chain>>

(* the caller of a failed invocation calls post_thread again with          *)
(* resume_from = failed_at and previous_tweet_ids = the ids collected       *)
Resume(t) ==
    /\ th[t].pc = "done" /\ ~th[t].result.success
    /\ chain[t].invocations < MaxInvocations
    /\ LET a == [args[t] EXCEPT !.resume_from = th[t].result.failed_at,
                                !.previous_tweet_ids = th[t].result.tweet_ids]
       IN /\ args' = [args EXCEPT ![t] = a]
          /\ th' = [th EXCEPT ![t] = SeedThread(a)]
    /\ ps' = [ps EXCEPT ![t] = InitPs]
    /\ obs' = [obs EXCEPT ![t] = InitObs]
    /\ chain' = [chain EXCEPT ![t].invocations = @ + 1]
    /\ UNCHANGED running

Next ==
    \/ \E t \in Tasks : ThreadReturn(t) /\ UNCHANGED <<storeVars, callVars>>
    \/ \E t \in Tasks : ThreadPace(t) /\ UNCHANGED <<storeVars, callVars>>
    \/ \E t \in Tasks : ThreadFirst(t) /\ UNCHANGED <<storeVars, callVars>>
    \/ \E t \in Tasks : PaceDone(t) /\ UNCHANGED <<storeVars, callVars>>
    \/ \E t \in Tasks : PostSingleBegin(t) /\ UNCHANGED <<storeVars, callVars>>
    \/ \E t \in Tasks : UploadMedia(t) /\ UNCHANGED <<storeVars, callVars>>
    \/ \E t \in Tasks : AttachAltText(t) /\ UNCHANGED <<storeVars, callVars>>
    \/ \E t \in Tasks : PostTweet(t) /\ UNCHANGED <<storeVars, callVars>>
    \/ \E t \in Tasks : BackoffDone(t) /\ UNCHANGED <<storeVars, callVars>>
    \/ \E t \in Tasks : Resume(t) /\ UNCHANGED <<storeVars, callVars>>

Spec == Init /\ [][Next]_vars

ConcSpec == ConcInit /\ [][Next]_vars

----------------------------------------------------------------------------
(* The Run table and the review handlers (web/routes.py) *)

(* statuses a handler writes: create_run's default, submit, approve_and_post *)
WrittenStatuses == {"submitted", "review", "approved"}
Modes == {"review", "auto"}

RunRows == [mode : Modes, status : WrittenStatuses]

RECURSIVE SeqsUpTo(_, _)
SeqsUpTo(S, n) ==
    IF n = 0 THEN {<<>>}
    ELSE LET shorter == SeqsUpTo(S, n - 1) IN
         shorter \cup {Append(q, x) : q \in {p \in shorter : Len(p) = n - 1}, x \in S}

StoreInit ==
    /\ runs \in SeqsUpTo(RunRows, MaxRuns)
    /\ tweets = NoTweets
    /\ approvals = NoApprovals
    /\ response = 0
    /\ call = NoCall
    /\ args = [t \in Tasks |-> IdleArgs]
    /\ th = [t \in Tasks |-> IdleThread]
    /\ chain = [t \in Tasks |-> InitChain(IdleArgs)]
    /\ ps = [t \in Tasks |-> InitPs]
    /\ obs = [t \in Tasks |-> InitObs]
    /\ running = 0

(* approve_and_post, lines 418-430: look the Run up, set it approved, commit *)
ApproveAndPost(run_id) ==
    IF run_id \notin DOMAIN runs
    THEN /\ response' = 404
         /\ UNCHANGED <<runs, tweets, approvals>>
    ELSE /\ approvals[run_id] < MaxApprovals
         /\ runs' = [runs EXCEPT ![run_id].status = "approved"]
         /\ approvals' = [approvals EXCEPT ![run_id] = @ + 1]
         /\ response' = 303
         /\ UNCHANGED tweets

StoreNext ==
    \/ \E run_id \in 1 .. (MaxRuns + 1) : ApproveAndPost(run_id) /\ UNCHANGED <<postVars, callVars>>

StoreSpec == StoreInit /\ [][StoreNext]_vars

----------------------------------------------------------------------------
(* Duplicate detection (services/duplicate_detection.py) *)

(* every status the Run model documents *)
RunStatuses == {"submitted", "review", "approved", "posting", "failed", "completed"}

Accounts == {1, 2}

(* the value of a nullable column that holds NULL: no str equals it *)
Null == <<"NULL">>

(* two canonical URLs that differ in the case of one character *)
StoredUrls == {<<"a">>, <<"A">>}

(* the columns of a Run that the duplicate lookup reads *)
LookupRows ==
    [account_id : Accounts, canonical_url : StoredUrls \cup {Null}, status : RunStatuses]

(* SQL's column = value: never true of a NULL column *)
SqlEquals(column, value) == column # Null /\ column = value

(* a lookup that leaves the status filter out *)
ExistingRuns_AnyStatus(db, account_id, canonical_url) ==
    {id \in DOMAIN db :
        /\ db[id].account_id = account_id
        /\ SqlEquals(db[id].canonical_url, canonical_url)}

(* lines 48-54, the filter of the lookup: the ids of the Runs it selects *)
ExistingRuns(db, account_id, canonical_url) ==
    {id \in DOMAIN db :
        /\ db[id].account_id = account_id
        /\ SqlEquals(db[id].canonical_url, canonical_url)
        /\ db[id].status \in {"completed", "approved"}}

MaxOf(S) == CHOOSE x \in S : \A y \in S : y <= x

(* order_by(submitted_at.desc()).first(): submitted_at is the insertion *)
(* time, so the most recent match is the one with the greatest id       *)
FirstBySubmittedAtDesc(ids) == IF ids = {} THEN NoId ELSE MaxOf(ids)

DuplicateDetectionResult(is_duplicate, previous_run_id, should_block) ==
    [is_duplicate |-> is_duplicate, previous_run_id |-> previous_run_id,
     should_block |-> should_block]

(* a policy that blocks a duplicate in review mode too *)
ShouldBlock_ReviewBlocks(mode, force) ==
    (mode = "auto" /\ ~force) \/ mode = "review"

(* lines 64-71 *)
ShouldBlock(mode, force) ==
    IF mode = "auto" /\ ~force THEN TRUE
    ELSE IF mode = "review" THEN FALSE
    ELSE FALSE

check_duplicate(db, account_id, canonical_url, mode, force) ==
    LET existing_run == FirstBySubmittedAtDesc(ExistingRuns(db, account_id, canonical_url))
    IN  IF existing_run = NoId
        THEN DuplicateDetectionResult(FALSE, NoId, FALSE)
        ELSE DuplicateDetectionResult(TRUE, existing_run, ShouldBlock(mode, force))

(* the arguments of one check_duplicate call *)
DupArgSpace ==
    [account_id : Accounts, canonical_url : StoredUrls, mode : Modes, force : BOOLEAN]

DupInit ==
    /\ runs \in SeqsUpTo(LookupRows, MaxRuns)
    /\ \E a \in DupArgSpace :
          call = [fn |-> "check_duplicate", pc |-> "called", args |-> a,
                  result |-> DuplicateDetectionResult(FALSE, NoId, FALSE)]
    /\ tweets = NoTweets
    /\ approvals = NoApprovals
    /\ response = 0
    /\ args = [t \in Tasks |-> IdleArgs]
    /\ th = [t \in Tasks |-> IdleThread]
    /\ chain = [t \in Tasks |-> InitChain(IdleArgs)]
    /\ ps = [t \in Tasks |-> InitPs]
    /\ obs = [t \in Tasks |-> InitObs]
    /\ running = 0

CheckDuplicate ==
    /\ call.fn = "check_duplicate" /\ call.pc = "called"
    /\ call' = [call EXCEPT
                  !.pc = "returned",
                  !.result = check_duplicate(runs, call.args.account_id,
                                 call.args.canonical_url, call.args.mode, call.args.force)]

DupNext ==
    \/ CheckDuplicate /\ UNCHANGED <<postVars, storeVars>>

DupSpec == DupInit /\ [][DupNext]_vars

----------------------------------------------------------------------------
(* The budget gate (services/budget.py) *)

MaxEstimate == 300     \* estimate_usd is drawn from -MaxEstimate..MaxEstimate

(* cap_usd: float = 0.02 *)
DefaultCapUsd == 200

(* caps a caller passes: below zero, zero, below, at and above the default *)
CapSamples == {-50, 0, 100, 200, 1000}

(* a gate whose comparison excludes the cap itself *)
within_budget_Exclusive(estimate_usd, cap_usd) ==
    LET clamped == IF estimate_usd < 0 THEN 0 ELSE estimate_usd
    IN  clamped < cap_usd

(* lines 22-25 *)
within_budget(estimate_usd, cap_usd) ==
    LET clamped == IF estimate_usd < 0 THEN 0 ELSE estimate_usd
    IN  clamped <= cap_usd

(* the arguments of one within_budget call; without cap_given the default *)
(* value of the parameter applies                                         *)
BudgetArgSpace ==
    {[estimate_usd |-> e, cap_given |-> TRUE, cap_usd |-> c] :
        e \in (-MaxEstimate) .. MaxEstimate, c \in CapSamples}
    \cup {[estimate_usd |-> e, cap_given |-> FALSE, cap_usd |-> DefaultCapUsd] :
        e \in (-MaxEstimate) .. MaxEstimate}

BudgetInit ==
    /\ \E a \in BudgetArgSpace :
          call = [fn |-> "within_budget", pc |-> "called", args |-> a, result |-> FALSE]
    /\ runs = EmptyStore
    /\ tweets = NoTweets
    /\ approvals = NoApprovals
    /\ response = 0
    /\ args = [t \in Tasks |-> IdleArgs]
    /\ th = [t \in Tasks |-> IdleThread]
    /\ chain = [t \in Tasks |-> InitChain(IdleArgs)]
    /\ ps = [t \in Tasks |-> InitPs]
    /\ obs = [t \in Tasks |-> InitObs]
    /\ running = 0

WithinBudget ==
    /\ call.fn = "within_budget" /\ call.pc = "called"
    /\ call' = [call EXCEPT
                  !.pc = "returned",
                  !.result = within_budget(call.args.estimate_usd, call.args.cap_usd)]

BudgetNext ==
    \/ WithinBudget /\ UNCHANGED <<postVars, storeVars>>

BudgetSpec == BudgetInit /\ [][BudgetNext]_vars

----------------------------------------------------------------------------
(* Python strings and urllib.parse, as canonicalize.py uses them *)

(* the printable ASCII characters in code point order, from " " (32) to "~" *)
(* (126); "grave" stands for the grave accent (96)                          *)
Printable ==
    <<" ", "!", "\"", "#", "$", "%", "&", "'", "(", ")", "*", "+", ",",
      "-", ".", "/", "0", "1", "2", "3", "4", "5", "6", "7", "8", "9", ":",
      ";", "<", "=", ">", "?", "@", "A", "B", "C", "D", "E", "F", "G", "H",
      "I", "J", "K", "L", "M", "N", "O", "P", "Q", "R", "S", "T", "U", "V",
      "W", "X", "Y", "Z", "[", "\\", "]", "^", "_", "grave", "a", "b", "c",
      "d", "e", "f", "g", "h", "i", "j", "k", "l", "m", "n", "o", "p", "q",
      "r", "s", "t", "u", "v", "w", "x", "y", "z", "{", "|", "}", "~">>

Chars == {Printable[i] : i \in 1 .. Len(Printable)}

(* ord() and chr() *)
CharIndex == [c \in Chars |-> CHOOSE i \in 1 .. Len(Printable) : Printable[i] = c]
ord(c) == CharIndex[c] + 31
chr(n) == Printable[n - 31]

IsUpper(c) == ord(c) \in 65 .. 90
IsLower(c) == ord(c) \in 97 .. 122
IsAlpha(c) == IsUpper(c) \/ IsLower(c)
IsDigit(c) == ord(c) \in 48 .. 57

(* str.lower() *)
LowerChar == [c \in Chars |-> IF IsUpper(c) THEN chr(ord(c) + 32) ELSE c]
lower(s) == [i \in 1 .. Len(s) |-> LowerChar[s[i]]]

MinOf(S) == CHOOSE x \in S : \A y \in S : x <= y

(* str.find / str.rfind for one character of C, from position start on: *)
(* the 1-based position, 0 when there is none                           *)
Find(s, C, start) ==
    LET hits == {i \in start .. Len(s) : s[i] \in C}
    IN  IF hits = {} THEN 0 ELSE MinOf(hits)
RFind(s, C) ==
    LET hits == {i \in 1 .. Len(s) : s[i] \in C}
    IN  IF hits = {} THEN 0 ELSE MaxOf(hits)

From(s, i) == SubSeq(s, i, Len(s))
startswith(s, prefix) ==
    Len(s) >= Len(prefix) /\ SubSeq(s, 1, Len(prefix)) = prefix
endswith(s, c) == s # <<>> /\ s[Len(s)] = c

(* str.strip(), str.lstrip() and str.rstrip(c) *)
strip(s) ==
    LET keep == {i \in 1 .. Len(s) : s[i] # " "}
    IN  IF keep = {} THEN <<>> ELSE SubSeq(s, MinOf(keep), MaxOf(keep))
lstrip(s) ==
    LET keep == {i \in 1 .. Len(s) : s[i] # " "}
    IN  IF keep = {} THEN <<>> ELSE From(s, MinOf(keep))
rstrip(s, c) ==
    LET keep == {i \in 1 .. Len(s) : s[i] # c}
    IN  IF keep = {} THEN <<>> ELSE SubSeq(s, 1, MaxOf(keep))

(* str.split(sep) and sep.join(parts) for a one-character sep *)
RECURSIVE split(_, _)
split(s, sep) ==
    LET i == Find(s, {sep}, 1)
    IN  IF i = 0 THEN <<s>>
        ELSE <<SubSeq(s, 1, i - 1)>> \o split(From(s, i + 1), sep)

RECURSIVE join(_, _)
join(parts, sep) ==
    IF parts = <<>> THEN <<>>
    ELSE IF Len(parts) = 1 THEN parts[1]
    ELSE parts[1] \o <<sep>> \o join(Tail(parts), sep)

(* a < b on str: lexicographic by code point *)
StrLess(a, b) ==
    \E i \in 1 .. (Len(a) + 1) :
        /\ i <= Len(b)
        /\ SubSeq(a, 1, i - 1) = SubSeq(b, 1, i - 1)
        /\ (i = Len(a) + 1 \/ ord(a[i]) < ord(b[i]))

(* sorted() of a set of str *)
RECURSIVE sorted(_)
sorted(S) ==
    IF S = {} THEN <<>>
    ELSE LET least == CHOOSE x \in S : \A y \in S \ {x} : StrLess(x, y)
         IN  <<least>> \o sorted(S \ {least})

(* string literals of canonicalize.py and urllib.parse *)
HttpPrefix == <<"h", "t", "t", "p", ":", "/", "/">>
HttpsPrefix == <<"h", "t", "t", "p", "s", ":", "/", "/">>
HttpsScheme == <<"h", "t", "t", "p", "s">>
WwwPrefix == <<"w", "w", "w", ".">>
Port80 == <<"8", "0">>
Port443 == <<"4", "4", "3">>
Slash == <<"/">>
SchemeSeparator == <<":", "/", "/">>

(* urllib.parse.scheme_chars *)
scheme_chars == {c \in Chars : IsAlpha(c) \/ IsDigit(c) \/ c \in {"+", "-", "."}}

(* urllib.parse.uses_netloc, as far as canonicalize can pass a scheme *)
uses_netloc == {HttpsScheme, <<"h", "t", "t", "p">>}

(* urllib.parse.urlparse; the URLs of this model hold no ";", "[", "]" or *)
(* control character, so params are empty and no ValueError is raised.   *)
(* urlsplit cuts the URL in steps, each working on what the one before   *)
(* left over; every step is an operator on that remainder.               *)

(* url.split("?", 1) when "?" is in url, mark being the place of "?" *)
SplitQuery(scheme, netloc, url, fragment, mark) ==
    [scheme |-> scheme, netloc |-> netloc,
     path |-> IF mark = 0 THEN url ELSE SubSeq(url, 1, mark - 1),
     query |-> IF mark = 0 THEN <<>> ELSE From(url, mark + 1),
     fragment |-> fragment]

BeforeFragment(url, hash) ==
    IF hash = 0 THEN url ELSE SubSeq(url, 1, hash - 1)

(* url.split("#", 1) when "#" is in url, hash being the place of "#" *)
SplitFragment(scheme, netloc, url, hash) ==
    SplitQuery(scheme, netloc, BeforeFragment(url, hash),
               IF hash = 0 THEN <<>> ELSE From(url, hash + 1),
               Find(BeforeFragment(url, hash), {"?"}, 1))

SplitAfterNetloc(scheme, netloc, url) ==
    SplitFragment(scheme, netloc, url, Find(url, {"#"}, 1))

(* _splitnetloc(url, 2) when url starts with "//", delim being the place *)
(* of the first of "/", "?", "#" behind it                               *)
SplitNetloc(scheme, url, delim) ==
    SplitAfterNetloc(scheme,
        IF ~startswith(url, <<"/", "/">>) THEN <<>>
        ELSE IF delim = 0 THEN From(url, 3)
        ELSE SubSeq(url, 3, delim - 1),
        IF ~startswith(url, <<"/", "/">>) THEN url
        ELSE IF delim = 0 THEN <<>>
        ELSE From(url, delim))

SplitAfterScheme(scheme, url) ==
    SplitNetloc(scheme, url, Find(url, {"/", "?", "#"}, 3))

(* the text before the first ":" at place i is a scheme *)
HasScheme(u, i) ==
    /\ i > 1
    /\ IsAlpha(u[1])
    /\ \A k \in 1 .. (i - 1) : u[k] \in scheme_chars

SplitScheme(u, i) ==
    SplitAfterScheme(IF HasScheme(u, i) THEN lower(SubSeq(u, 1, i - 1)) ELSE <<>>,
                     IF HasScheme(u, i) THEN From(u, i + 1) ELSE u)

urlsplit(u) == SplitScheme(u, Find(u, {":"}, 1))

urlparse(url) == urlsplit(lstrip(url))

(* urllib.parse.urlunparse with empty params and empty fragment *)
urlunparse(scheme, netloc, path, query) ==
    LET with_netloc ==
            IF netloc # <<>>
               \/ (scheme # <<>> /\ scheme \in uses_netloc
                   /\ ~startswith(path, <<"/", "/">>))
            THEN <<"/", "/">> \o netloc
                 \o (IF path # <<>> /\ path[1] # "/" THEN Slash \o path ELSE path)
            ELSE path
        with_scheme ==
            IF scheme # <<>> THEN scheme \o <<":">> \o with_netloc ELSE with_netloc
    IN  IF query # <<>> THEN with_scheme \o <<"?">> \o query ELSE with_scheme

HexDigits == <<"0", "1", "2", "3", "4", "5", "6", "7", "8", "9", "A", "B", "C", "D", "E", "F">>
IsHex(c) == IsDigit(c) \/ c \in {"a", "b", "c", "d", "e", "f", "A", "B", "C", "D", "E", "F"}
HexValue(c) ==
    IF IsDigit(c) THEN ord(c) - 48
    ELSE IF IsUpper(c) THEN ord(c) - 55
    ELSE ord(c) - 87

(* urllib.parse.unquote: %xx escapes become the character they encode; *)
(* a "%" that no two hex digits follow stays as it is. The URLs of this *)
(* model escape printable ASCII characters only.                        *)
RECURSIVE unquote(_)
unquote(s) ==
    IF s = <<>> THEN <<>>
    ELSE IF /\ s[1] = "%"
            /\ Len(s) >= 3
            /\ IsHex(s[2]) /\ IsHex(s[3])
            /\ (16 * HexValue(s[2]) + HexValue(s[3])) \in 32 .. 126
         THEN <<chr(16 * HexValue(s[2]) + HexValue(s[3]))>> \o unquote(From(s, 4))
         ELSE <<s[1]>> \o unquote(Tail(s))

(* str.replace("+", " ") *)
PlusToSpace(s) == [i \in 1 .. Len(s) |-> IF s[i] = "+" THEN " " ELSE s[i]]

(* one field of parse_qsl: name and value around the first "=" *)
ParseField(name_value) ==
    LET eq == Find(name_value, {"="}, 1)
        name == IF eq = 0 THEN name_value ELSE SubSeq(name_value, 1, eq - 1)
        value == IF eq = 0 THEN <<>> ELSE From(name_value, eq + 1)
    IN  <<unquote(PlusToSpace(name)), unquote(PlusToSpace(value))>>

(* urllib.parse.parse_qsl(qs, keep_blank_values=True): the (name, value) *)
(* pairs in the order of the query string; empty fields are skipped      *)
RECURSIVE ParseFields(_)
ParseFields(fields) ==
    IF fields = <<>> THEN <<>>
    ELSE IF fields[1] = <<>> THEN ParseFields(Tail(fields))
    ELSE <<ParseField(fields[1])>> \o ParseFields(Tail(fields))

parse_qsl(qs) == IF qs = <<>> THEN <<>> ELSE ParseFields(split(qs, "&"))

(* urllib.parse.quote_plus: unreserved characters stay, " " becomes "+", *)
(* every other character becomes its %XX escape                          *)
IsUnreserved(c) == IsAlpha(c) \/ IsDigit(c) \/ c \in {"_", ".", "-", "~"}
QuoteChar(c) ==
    IF IsUnreserved(c) THEN <<c>>
    ELSE IF c = " " THEN <<"+">>
    ELSE <<"%", HexDigits[(ord(c) \div 16) + 1], HexDigits[(ord(c) % 16) + 1]>>

RECURSIVE quote_plus(_)
quote_plus(s) ==
    IF s = <<>> THEN <<>> ELSE QuoteChar(s[1]) \o quote_plus(Tail(s))

(* urllib.parse.urlencode of a list of (name, value) pairs *)
RECURSIVE EncodePairs(_)
EncodePairs(pairs) ==
    IF pairs = <<>> THEN <<>>
    ELSE <<quote_plus(pairs[1][1]) \o <<"=">> \o quote_plus(pairs[1][2])>>
         \o EncodePairs(Tail(pairs))

urlencode(pairs) == join(EncodePairs(pairs), "&")

----------------------------------------------------------------------------
(* URL canonicalization (services/canonicalize.py) *)

MaxFields == 3         \* fields ("name=value") of a query string
MaxRedirectsArg == 2   \* max_redirects is drawn from 0..MaxRedirectsArg

(* max_redirects: int = 5 *)
DefaultMaxRedirects == 5

TRACKING_PARAMS ==
    {<<"u", "t", "m", "_", "s", "o", "u", "r", "c", "e">>,
     <<"u", "t", "m", "_", "m", "e", "d", "i", "u", "m">>,
     <<"u", "t", "m", "_", "c", "a", "m", "p", "a", "i", "g", "n">>,
     <<"u", "t", "m", "_", "t", "e", "r", "m">>,
     <<"u", "t", "m", "_", "c", "o", "n", "t", "e", "n", "t">>,
     <<"u", "t", "m", "_", "i", "d">>,
     <<"f", "b", "c", "l", "i", "d">>,
     <<"f", "b", "_", "a", "c", "t", "i", "o", "n", "_", "i", "d", "s">>,
     <<"f", "b", "_", "a", "c", "t", "i", "o", "n", "_", "t", "y", "p", "e", "s">>,
     <<"f", "b", "_", "r", "e", "f">>,
     <<"f", "b", "_", "s", "o", "u", "r", "c", "e">>,
     <<"t", "w", "c", "l", "i", "d">>,
     <<"g", "c", "l", "i", "d">>,
     <<"m", "s", "c", "l", "k", "i", "d">>,
     <<"m", "c", "_", "c", "i", "d">>,
     <<"m", "c", "_", "e", "i", "d">>,
     <<"_", "h", "s", "e", "n", "c">>,
     <<"_", "h", "s", "m", "i">>,
     <<"m", "k", "t", "_", "t", "o", "k">>,
     <<"r", "e", "f">>,
     <<"s", "o", "u", "r", "c", "e">>}

(* what a call hands back: the canonical URL, or the CanonicalizationError *)
(* it raised; lookups are the URLs passed to http_get, in order           *)
Returned(url, lookups) ==
    [ok |-> TRUE, url |-> url, error |-> "none", lookups |-> lookups]
CanonicalizationError(message, lookups) ==
    [ok |-> FALSE, url |-> <<>>, error |-> message, lookups |-> lookups]

(* lines 83-84: the scheme check on the lowercased URL *)
AddScheme(url) ==
    IF startswith(lower(url), HttpPrefix) \/ startswith(lower(url), HttpsPrefix)
    THEN url
    ELSE HttpsPrefix \o url

(* lines 112-113 *)
StripWww(host) ==
    IF startswith(host, WwwPrefix) THEN From(host, 5) ELSE host

(* lines 120-123: host.rsplit(":", 1) *)
StripDefaultPort(host) ==
    LET colon == RFind(host, {":"})
    IN  IF colon > 0 /\ From(host, colon + 1) \in {Port80, Port443}
        THEN SubSeq(host, 1, colon - 1)
        ELSE host

(* lines 109-123 *)
NormalizeHost(netloc) == StripDefaultPort(StripWww(lower(netloc)))

(* lines 126-130 *)
NormalizePath(parsed_path) ==
    LET path == IF parsed_path = <<>> THEN Slash ELSE parsed_path
    IN  IF Len(path) > 1 /\ endswith(path, "/") THEN rstrip(path, "/") ELSE path

(* a deny-list test on the key as it is written *)
IsTracking_CaseSensitive(key) == key \in TRACKING_PARAMS

(* line 138: k.lower() in TRACKING_PARAMS *)
IsTracking(key) == lower(key) \in TRACKING_PARAMS

RECURSIVE ValuesByKey(_, _)
ValuesByKey(keys, pairs) ==
    IF keys = <<>> THEN <<>>
    ELSE SelectSeq(pairs, LAMBDA p : p[1] = keys[1]) \o ValuesByKey(Tail(keys), pairs)

(* pairs emitted in the order of the query string *)
sorted_params_AsGiven(filtered_params) == filtered_params

(* lines 143-147: for each key in sorted order, its values in the order *)
(* parse_qs collected them                                              *)
sorted_params(filtered_params) ==
    LET keys == {filtered_params[i][1] : i \in 1 .. Len(filtered_params)}
    IN  ValuesByKey(sorted(keys), filtered_params)

(* lines 133-148 *)
NormalizeQuery(parsed_query) ==
    IF parsed_query = <<>> THEN <<>>
    ELSE LET params == parse_qsl(parsed_query)
             filtered_params == SelectSeq(params, LAMBDA p : ~IsTracking(p[1]))
         IN  IF filtered_params = <<>> THEN <<>>
             ELSE urlencode(sorted_params(filtered_params))

(* lines 108-154 *)
Normalize(parsed) ==
    urlunparse(HttpsScheme, NormalizeHost(parsed.netloc),
               NormalizePath(parsed.path), NormalizeQuery(parsed.query))

(* http_get: the i-th lookup of a call is answered by http_get[i]. A    *)
(* response either raises (transport failure) or carries a status code *)
(* and a Location header (Null: no such header)                        *)
RedirectStatuses == {301, 302, 303, 307, 308}

Locations ==
    {<<"h", "t", "t", "p", "s", ":", "/", "/", "a", ".", "b", "/", "x">>,
     <<"h", "t", "t", "p", "s", ":", "/", "/", "a", ".", "b", "/", "y">>,
     <<"/", "x">>,
     <<"y">>,
     <<"h", "t", "t", "p", "s", ":", "/", "/", "w", "w", "w", ".", "a", ".", "b", "/", "y", "/", "?", "r", "e", "f", "=", "1", "#", "f">>}

TransportFailure == [raises |-> TRUE, status_code |-> 0, location |-> Null]
StatusResponse(status_code, location) ==
    [raises |-> FALSE, status_code |-> status_code, location |-> location]

Responses ==
    {TransportFailure,
     StatusResponse(200, Null), StatusResponse(404, Null),
     StatusResponse(304, <<"h", "t", "t", "p", "s", ":", "/", "/", "a", ".", "b", "/", "y">>),
     StatusResponse(301, Null), StatusResponse(302, <<>>)}
    \cup {StatusResponse(301, location) : location \in Locations}
    \cup {StatusResponse(308, <<"h", "t", "t", "p", "s", ":", "/", "/", "a", ".", "b", "/", "x">>)}

(* lines 213-223: a Location that is no absolute http(s) URL is resolved *)
(* against the current URL                                               *)
ResolveRelative(parsed_current, cut, location) ==
    IF startswith(location, Slash)
    THEN parsed_current.scheme \o SchemeSeparator \o parsed_current.netloc
         \o location
    ELSE parsed_current.scheme \o SchemeSeparator \o parsed_current.netloc
         \o (IF cut = 0 THEN parsed_current.path
             ELSE SubSeq(parsed_current.path, 1, cut - 1))
         \o Slash \o location

(* parsed.path.rsplit("/", 1)[0] is cut at the last "/" of the path *)
ResolveAgainst(parsed_current, location) ==
    ResolveRelative(parsed_current, RFind(parsed_current.path, {"/"}), location)

ResolveLocation(current_url, location) ==
    IF startswith(location, HttpPrefix) \/ startswith(location, HttpsPrefix)
    THEN location
    ELSE ResolveAgainst(urlparse(current_url), location)

(* a transport failure that fails the canonicalization *)
OnTransportFailure_Raises(current_url, lookups) ==
    CanonicalizationError("Lookup failed", lookups)

(* lines 201-204 *)
OnTransportFailure(current_url, lookups) == Returned(current_url, lookups)

(* line 194 *)
IsVisited(current_url, visited) == current_url \in visited

(* lines 193-231: the iterations of the loop that remain *)
RECURSIVE FollowLoop(_, _, _, _, _)
FollowLoop(current_url, visited, http_get, remaining, lookups) ==
    IF remaining <= 0
    THEN CanonicalizationError("Too many redirects", lookups)
    ELSE IF IsVisited(current_url, visited)
    THEN CanonicalizationError("Redirect loop detected", lookups)
    ELSE LET http_response == http_get[Len(lookups) + 1]
             looked_up == Append(lookups, current_url)
         IN  IF http_response.raises
             THEN OnTransportFailure(current_url, looked_up)
             ELSE IF http_response.status_code \in RedirectStatuses
             THEN IF http_response.location \in {Null, <<>>}
                  THEN Returned(current_url, looked_up)
                  ELSE FollowLoop(ResolveLocation(current_url, http_response.location),
                                  visited \cup {current_url}, http_get,
                                  remaining - 1, looked_up)
             ELSE Returned(current_url, looked_up)

_follow_redirects(url, http_get, max_redirects) ==
    FollowLoop(url, {}, http_get, max_redirects, <<>>)

(* a host check that lets every parsed URL pass *)
HasNoNetloc_Never(parsed) == FALSE

(* line 92 *)
HasNoNetloc(parsed) == parsed.netloc = <<>>

(* lines 105-156: the URL the redirects ended at is parsed again and *)
(* normalized; a failure of the following is the failure of the call *)
NormalizeFollowed(followed) ==
    IF followed.ok
    THEN Returned(Normalize(urlparse(followed.url)), followed.lookups)
    ELSE followed

(* lines 92-156 *)
CanonicalizeParsed(url, parsed, http_get, follow_redirects, max_redirects) ==
    IF HasNoNetloc(parsed)
    THEN CanonicalizationError("URL must have a valid domain", <<>>)
    ELSE IF follow_redirects
    THEN NormalizeFollowed(_follow_redirects(url, http_get, max_redirects))
    ELSE Returned(Normalize(parsed), <<>>)

(* lines 82-90 *)
CanonicalizeWithScheme(url, http_get, follow_redirects, max_redirects) ==
    CanonicalizeParsed(url, urlparse(url), http_get, follow_redirects,
                       max_redirects)

(* lines 76-156 *)
canonicalize(url, http_get, follow_redirects, max_redirects) ==
    IF url = <<>> \/ strip(url) = <<>>
    THEN CanonicalizationError("URL cannot be empty", <<>>)
    ELSE CanonicalizeWithScheme(AddScheme(strip(url)), http_get,
                                follow_redirects, max_redirects)

(* The inputs of canonicalize: URLs put together from the parts a user *)
(* can type, in every combination                                      *)
PaddingTexts == {<<>>, <<" ">>}
SchemeTexts ==
    {<<>>,
     <<"h", "t", "t", "p", ":", "/", "/">>,
     <<"h", "t", "t", "p", "s", ":", "/", "/">>,
     <<"H", "T", "T", "P", ":", "/", "/">>}
HostTexts ==
    {<<>>,
     <<"a", ".", "b">>,
     <<"A", ".", "b">>,
     <<"w", "w", "w", ".", "a", ".", "b">>,
     <<"W", "W", "W", ".", "A", ".", "B">>,
     <<"w", "w", "w", ".", "w", "w", "w", ".", "a", ".", "b">>,
     <<"w", "w", "w", ".">>}
PortTexts == {<<>>, <<":", "8", "0">>, <<":", "4", "4", "3">>, <<":", "8", "0", "8", "0">>}
PathTexts ==
    {<<>>,
     <<"/">>,
     <<"/", "x">>,
     <<"/", "X">>,
     <<"/", "x", "/">>,
     <<"/", "/">>,
     <<"/", "x", "/", "y", "/">>}
QueryTexts == {<<>>, <<"?", "b", "=", "1", "&", "a", "=", "2">>}
FragmentTexts == {<<>>, <<"#", "f">>}

AuthorityInputs ==
    {pad \o scheme \o host \o port \o path \o query \o fragment \o pad :
        pad \in PaddingTexts, scheme \in SchemeTexts, host \in HostTexts,
        port \in PortTexts, path \in PathTexts, query \in QueryTexts,
        fragment \in FragmentTexts}

(* the fields of a query string: plain, repeated and upper-case keys,   *)
(* deny-listed keys in either case, a key without "=", an empty field,  *)
(* a value with an escape and a "+"                                     *)
FieldTexts ==
    {<<"a", "=", "1">>,
     <<"a", "=", "2">>,
     <<"b", "=", "3">>,
     <<"A", "=", "4">>,
     <<"u", "t", "m", "_", "s", "o", "u", "r", "c", "e", "=", "5">>,
     <<"R", "E", "F", "=", "6">>,
     <<"b">>,
     <<>>,
     <<"c", "=", "%", "2", "f", "+">>}

QueryInputs ==
    {<<"h", "t", "t", "p", "s", ":", "/", "/", "a", ".", "b", "/", "x", "?">> \o join(fields, "&") :
        fields \in SeqsUpTo(FieldTexts, MaxFields)}

ExampleInputs ==
    {<<"H", "T", "T", "P", ":", "/", "/", "W", "W", "W", ".", "E", "x", "a", "m", "p", "l", "e", ".", "C", "O", "M", ":", "8", "0", "/", "x">>,
     <<"h", "t", "t", "p", "s", ":", "/", "/", "e", "x", "a", "m", "p", "l", "e", ".", "c", "o", "m", "/", "x">>}

(* calls that follow no redirect *)
NormalizeCalls ==
    [url : AuthorityInputs \cup QueryInputs \cup ExampleInputs,
     http_get : {<<>>}, follow_redirects : {FALSE},
     max_redirects : {DefaultMaxRedirects}]

StartUrls ==
    {<<"a", ".", "b", "/", "x">>,
     <<"h", "t", "t", "p", "s", ":", "/", "/", "a", ".", "b", "/", "y">>,
     <<"h", "t", "t", "p", "s", ":", "/", "/", "w", "w", "w", ".", "a", ".", "b", "/", "x", "/">>,
     <<" ">>,
     <<"h", "t", "t", "p", "s", ":", "/", "/", "/", "x">>}

(* calls with an http_get that has an answer for each of the at most *)
(* max_redirects lookups, or for one lookup more                      *)
RedirectCalls ==
    {c \in [url : StartUrls, http_get : SeqsUpTo(Responses, MaxRedirectsArg),
            follow_redirects : BOOLEAN, max_redirects : 0 .. MaxRedirectsArg] :
        Len(c.http_get) - c.max_redirects \in {0, 1}}

CanonInit ==
    /\ \E a \in NormalizeCalls \cup RedirectCalls :
          call = [fn |-> "canonicalize", pc |-> "called", args |-> a,
                  result |-> Returned(<<>>, <<>>)]
    /\ runs = EmptyStore
    /\ tweets = NoTweets
    /\ approvals = NoApprovals
    /\ response = 0
    /\ args = [t \in Tasks |-> IdleArgs]
    /\ th = [t \in Tasks |-> IdleThread]
    /\ chain = [t \in Tasks |-> InitChain(IdleArgs)]
    /\ ps = [t \in Tasks |-> InitPs]
    /\ obs = [t \in Tasks |-> InitObs]
    /\ running = 0

Canonicalize ==
    /\ call.fn = "canonicalize" /\ call.pc = "called"
    /\ call' = [call EXCEPT
                  !.pc = "returned",
                  !.result = canonicalize(call.args.url, call.args.http_get,
                                 call.args.follow_redirects, call.args.max_redirects)]

CanonNext ==
    \/ Canonicalize /\ UNCHANGED <<postVars, storeVars>>

CanonSpec == CanonInit /\ [][CanonNext]_vars

----------------------------------------------------------------------------
(* The submit handlers: submit of app/web/routes.py and api_submit of      *)
(* app/api/routes.py.  A handler is one step from the store it finds to    *)
(* the store it leaves and the outcome the caller gets.  What lies outside *)
(* the handler (the network, the scraped page, the image, the generator)   *)
(* is an environment chosen with the request.                              *)

(* an account id that no Account row has *)
NoAccount == 0

(* estimate of a generation that did not happen *)
NoCost == -1

(* two spellings of one page, and another page *)
SubmitUrls ==
    {<<"h", "t", "t", "p", "s", ":", "/", "/", "a", ".", "b", "/", "x">>,
     <<"h", "t", "t", "p", "s", ":", "/", "/", "A", ".", "b", "/", "x", "/">>,
     <<"h", "t", "t", "p", "s", ":", "/", "/", "a", ".", "b", "/", "y">>}

(* the answers to canonicalize's lookups: the page itself, or redirects *)
(* that lead back to a URL already looked up                            *)
SubmitLookups ==
    {<<StatusResponse(200, Null)>>,
     <<StatusResponse(301, <<"x">>), StatusResponse(301, <<"x">>)>>}

SubmitRequests ==
    [account_id : Accounts \cup {NoAccount}, url : SubmitUrls, mode : Modes,
     force : BOOLEAN, include_image : BOOLEAN]

(* generate_thread is "default" for the function the handlers import,    *)
(* which takes (scrape, settings, openai_client) and so raises TypeError *)
(* on the keywords either handler passes; the other values stand for a   *)
(* replacement as the tests patch in: one that raises GenerationError,   *)
(* one whose cost is the cap, one whose cost is above it                 *)
Environments ==
    [http_get : SubmitLookups,
     scrape : {"ScraperError", "no_candidates", "candidates"},
     validate_and_process : {"ProcessedImage", "ImageError"},
     generate_thread : {"default", "GenerationError", "at_cap", "over_cap"}]

(* the Runs a handler can find: rows that submit wrote and approve_and_post *)
(* or the posting of a thread updated                                       *)
FoundRuns ==
    [account_id : Accounts,
     canonical_url : {<<"h", "t", "t", "p", "s", ":", "/", "/", "a", ".", "b", "/", "x">>},
     mode : Modes, status : {"review", "approved", "completed"}]

(* GeneratedThread.cost_usd of the replaced generator *)
CostUsd(env) ==
    IF env.generate_thread = "at_cap" THEN DefaultCapUsd ELSE DefaultCapUsd + 1

(* what the caller gets, with what the handler did on the way *)
Outcome(kind, status_code, detail, previous_run_id, scraped, cost, image, run_id) ==
    [kind |-> kind, status_code |-> status_code, detail |-> detail,
     previous_run_id |-> previous_run_id, scraped |-> scraped,
     cost |-> cost, image |-> image, run_id |-> run_id]

(* an exception that leaves the handler: kind is its type; the framework *)
(* answers 500                                                           *)
Escapes(kind, scraped, cost) ==
    Outcome(kind, 500, "none", NoId, scraped, cost, FALSE, NoId)

HTTPException(status_code, detail, previous_run_id, scraped) ==
    Outcome("HTTPException", status_code, detail, previous_run_id, scraped,
            NoCost, FALSE, NoId)

(* a handler that has written its Run before the step that failed *)
Unchanged_PartialRun(db, stored, outcome) ==
    [runs |-> Append(db, [account_id |-> 1, canonical_url |-> Null,
                          mode |-> "review", status |-> "submitted"]),
     tweets |-> stored, outcome |-> outcome]

(* a handler that ends without a write *)
Unchanged(db, stored, outcome) ==
    [runs |-> db, tweets |-> stored, outcome |-> outcome]

(* create_tweet for each of enumerate(generation_result.tweets), a thread *)
(* of NumTexts tweets                                                    *)
create_tweets(stored, run_id, media_alt) ==
    stored \o [idx \in 1 .. NumTexts |->
                  [run_id |-> run_id, idx |-> idx - 1,
                   media_alt |-> IF idx - 1 = 0 THEN media_alt ELSE FALSE]]

(* pydantic validates RunCreate: settings_json is declared str | None *)
RunCreateIsValid(settings_json) == settings_json \in {"str", "None"}

(* an image step whose failure is not caught *)
ProcessHero_Raises(request, env) ==
    IF ~(request.include_image /\ env.scrape = "candidates") THEN "none"
    ELSE IF env.validate_and_process = "ProcessedImage" THEN "bytes"
    ELSE "raises"

(* submit, lines 131-144: pick_hero returns the first candidate, and what *)
(* validate_and_process raises is caught and passed                       *)
ProcessHero(request, env) ==
    IF ~(request.include_image /\ env.scrape = "candidates") THEN "none"
    ELSE IF env.validate_and_process = "ProcessedImage" THEN "bytes"
    ELSE "none"

(* submit, lines 102-236.  The HTTPException of the duplicate block is     *)
(* raised inside the try and caught by its last clause, except Exception,  *)
(* as is the TypeError of the generate_thread call.                        *)
submit(db, stored, request, env) ==
    LET canonical == canonicalize(request.url, env.http_get, TRUE, DefaultMaxRedirects)
        duplicate_check == check_duplicate(db, request.account_id, canonical.url,
                                           request.mode, request.force)
        hero_image_bytes == ProcessHero(request, env) = "bytes"
        mode == IF within_budget(CostUsd(env), DefaultCapUsd)
                THEN request.mode ELSE "review"
        run == [account_id |-> request.account_id, canonical_url |-> canonical.url,
                mode |-> mode, status |-> "review"]
    IN  IF request.account_id \notin Accounts
        THEN Unchanged(db, stored, HTTPException(404, "Account not found", NoId, FALSE))
        ELSE IF ~canonical.ok
        THEN Unchanged(db, stored, HTTPException(400, "Invalid URL", NoId, FALSE))
        ELSE IF duplicate_check.should_block
        THEN Unchanged(db, stored,
                 HTTPException(500, "Unexpected error",
                               duplicate_check.previous_run_id, FALSE))
        ELSE IF env.scrape = "ScraperError"
        THEN Unchanged(db, stored,
                 HTTPException(400, "Failed to scrape content", NoId, TRUE))
        ELSE IF ProcessHero(request, env) = "raises"
        THEN Unchanged(db, stored, HTTPException(500, "Unexpected error", NoId, TRUE))
        ELSE IF env.generate_thread = "default"
        THEN Unchanged(db, stored, HTTPException(500, "Unexpected error", NoId, TRUE))
        ELSE IF env.generate_thread = "GenerationError"
        THEN Unchanged(db, stored,
                 HTTPException(500, "Failed to generate content", NoId, TRUE))
        ELSE [runs |-> Append(db, run),
              tweets |-> create_tweets(stored, Len(db) + 1, hero_image_bytes),
              outcome |-> Outcome("RedirectResponse", 303, "none", NoId, TRUE,
                                  CostUsd(env), hero_image_bytes, Len(db) + 1)]

(* api_submit, lines 48-182.  It has no try: what a step raises leaves the *)
(* handler.  duplicate_check.blocks_submission is read when is_duplicate   *)
(* holds and DuplicateDetectionResult has no such field; hero.url is read  *)
(* of the str that pick_hero returns, inside the try of the image step, so *)
(* no image is ever obtained; RunCreate is given a dict as settings_json.  *)
(* create_run copies account_id, url, mode, type and settings_json only,   *)
(* so the row it would write has the default status and no canonical_url.  *)
api_submit(db, stored, request, env) ==
    LET canonical == canonicalize(request.url, env.http_get, TRUE, DefaultMaxRedirects)
        duplicate_check == check_duplicate(db, request.account_id, canonical.url,
                                           request.mode, request.force)
        hero_image_bytes == FALSE
        mode == IF within_budget(CostUsd(env), DefaultCapUsd)
                THEN request.mode ELSE "review"
        run == [account_id |-> request.account_id, canonical_url |-> Null,
                mode |-> mode, status |-> "submitted"]
    IN  IF request.account_id \notin Accounts
        THEN Unchanged(db, stored, HTTPException(400, "Account not found", NoId, FALSE))
        ELSE IF ~canonical.ok
        THEN Unchanged(db, stored, Escapes("CanonicalizationError", FALSE, NoCost))
        ELSE IF duplicate_check.is_duplicate
        THEN Unchanged(db, stored, Escapes("AttributeError", FALSE, NoCost))
        ELSE IF env.scrape = "ScraperError"
        THEN Unchanged(db, stored, Escapes("ScraperError", TRUE, NoCost))
        ELSE IF env.generate_thread = "default"
        THEN Unchanged(db, stored, Escapes("TypeError", TRUE, NoCost))
        ELSE IF env.generate_thread = "GenerationError"
        THEN Unchanged(db, stored, Escapes("GenerationError", TRUE, NoCost))
        ELSE IF ~RunCreateIsValid("dict")
        THEN Unchanged(db, stored, Escapes("ValidationError", TRUE, CostUsd(env)))
        ELSE [runs |-> Append(db, run),
              tweets |-> create_tweets(stored, Len(db) + 1, hero_image_bytes),
              outcome |-> Outcome("SubmitResponse", 200, "none", NoId, TRUE,
                                  CostUsd(env), hero_image_bytes, Len(db) + 1)]

(* the handler has returned or raised: the store and the caller see it *)
Handled(fn, request, done) ==
    /\ runs' = done.runs
    /\ tweets' = done.tweets
    /\ response' = done.outcome.status_code
    /\ call' = [fn |-> fn, pc |-> "returned", args |-> request,
                result |-> done.outcome]
    /\ UNCHANGED approvals

SubmitInit ==
    /\ runs \in SeqsUpTo(FoundRuns, MaxRuns - 1)
    /\ \E fn \in {"submit", "api_submit"}, request \in SubmitRequests,
          env \in Environments :
          \* the image is fetched only for a request that asks for it and a
          \* page that has candidates: no other call has an image outcome
          /\ \/ request.include_image /\ env.scrape = "candidates"
             \/ env.validate_and_process = "ProcessedImage"
          /\ call = [fn |-> fn, pc |-> "called", args |-> request, env |-> env]
    /\ tweets = NoTweets
    /\ approvals = NoApprovals
    /\ response = 0
    /\ args = [t \in Tasks |-> IdleArgs]
    /\ th = [t \in Tasks |-> IdleThread]
    /\ chain = [t \in Tasks |-> InitChain(IdleArgs)]
    /\ ps = [t \in Tasks |-> InitPs]
    /\ obs = [t \in Tasks |-> InitObs]
    /\ running = 0

WebSubmit ==
    /\ call.fn = "submit" /\ call.pc = "called"
    /\ Handled("submit", call.args, submit(runs, tweets, call.args, call.env))

ApiSubmit ==
    /\ call.fn = "api_submit" /\ call.pc = "called"
    /\ Handled("api_submit", call.args, api_submit(runs, tweets, call.args, call.env))

SubmitNext ==
    \/ WebSubmit /\ UNCHANGED postVars
    \/ ApiSubmit /\ UNCHANGED postVars

SubmitSpec == SubmitInit /\ [][SubmitNext]_vars

----------------------------------------------------------------------------
(* The life of a Run: the handlers that can touch a stored Run or its    *)
(* tweets (approve_and_post, regenerate_thread, update_alt_text, and the *)
(* submit handlers), taken in any order on a store that holds Runs of    *)
(* every status.                                                         *)

(* regenerate_thread, lines 337-400: what scrape or generate_thread raises *)
(* is answered with 500; otherwise the Run's tweets are replaced; the Run  *)
(* keeps its status.  regenerated is what the two calls come to: the       *)
(* exception raised or the GeneratedThread returned                        *)
RegenerateThread(run_id, regenerated) ==
    /\ IF run_id \notin DOMAIN runs
       THEN response' = 404 /\ UNCHANGED tweets
       ELSE IF regenerated # "GeneratedThread"
       THEN response' = 500 /\ UNCHANGED tweets
       ELSE /\ tweets' = create_tweets(SelectSeq(tweets, LAMBDA t : t.run_id # run_id),
                                       run_id, FALSE)
            /\ response' = 303
    /\ UNCHANGED <<runs, approvals>>

(* update_alt_text, lines 308-334; update_tweet, lines 279-305, does the *)
(* same to the tweet's text                                              *)
UpdateAltText(run_id, tweet_id) ==
    /\ IF tweet_id \in DOMAIN tweets /\ tweets[tweet_id].run_id = run_id
       THEN /\ tweets' = [tweets EXCEPT ![tweet_id].media_alt = TRUE]
            /\ response' = 303
       ELSE response' = 404 /\ UNCHANGED tweets
    /\ UNCHANGED <<runs, approvals>>

(* one auto-mode submission is pending; the store holds Runs in any status, each *)
(* with the tweets of its thread                                       *)
LifecycleInit ==
    /\ runs \in SeqsUpTo({[r EXCEPT !.status = s] : r \in FoundRuns, s \in RunStatuses},
                         MaxRuns - 1)
    /\ tweets = [k \in 1 .. (Len(runs) * NumTexts) |->
                    [run_id |-> ((k - 1) \div NumTexts) + 1,
                     idx |-> (k - 1) % NumTexts, media_alt |-> FALSE]]
    /\ \E fn \in {"submit", "api_submit"}, request \in SubmitRequests,
          env \in Environments :
          /\ request.account_id \in Accounts
          /\ request.url \in {r.canonical_url : r \in FoundRuns}
          /\ request.mode = "auto" /\ ~request.force /\ ~request.include_image
          /\ env.http_get = <<StatusResponse(200, Null)>>
          /\ env.scrape = "no_candidates"
          /\ env.validate_and_process = "ProcessedImage"
          /\ env.generate_thread = "at_cap"
          /\ call = [fn |-> fn, pc |-> "called", args |-> request, env |-> env]
    /\ approvals = NoApprovals
    /\ response = 0
    /\ args = [t \in Tasks |-> IdleArgs]
    /\ th = [t \in Tasks |-> IdleThread]
    /\ chain = [t \in Tasks |-> InitChain(IdleArgs)]
    /\ ps = [t \in Tasks |-> InitPs]
    /\ obs = [t \in Tasks |-> InitObs]
    /\ running = 0

LifecycleNext ==
    \/ \E run_id \in 1 .. MaxRuns : ApproveAndPost(run_id) /\ UNCHANGED <<postVars, callVars>>
    \/ \E run_id \in 1 .. MaxRuns,
          regenerated \in {"ScraperError", "TypeError", "GeneratedThread"} :
          RegenerateThread(run_id, regenerated) /\ UNCHANGED <<postVars, callVars>>
    \/ \E run_id \in 1 .. MaxRuns, tweet_id \in 1 .. (MaxRuns * NumTexts) :
          UpdateAltText(run_id, tweet_id) /\ UNCHANGED <<postVars, callVars>>
    \/ WebSubmit /\ UNCHANGED postVars
    \/ ApiSubmit /\ UNCHANGED postVars

LifecycleSpec == LifecycleInit /\ [][LifecycleNext]_vars

----------------------------------------------------------------------------
(* Properties of the posting engine *)

(* the ids of the posts accepted in this invocation, in posting order *)
IdsOf(newIds) == [k \in 1 .. Len(newIds) |-> newIds[k][2]]

(* the posts accepted in this invocation are those of items from..to, in order *)
CoversInOrder(newIds, from, to) ==
    /\ Len(newIds) = (IF to >= from THEN to - from + 1 ELSE 0)
    /\ \A k \in 1 .. Len(newIds) : newIds[k][1] = from + k - 1

Started(t) == th[t].pc # "idle"

(* the item's post_single raised PostError or RateLimitError, or returned  *)
(* without a tweet id                                                      *)
ItemFailed(t) ==
    /\ obs[t].failedItem # NoIndex
    /\ obs[t].raised.type \in {"PostError", "RateLimitError", "none"}

\* C1: when the item at index i fails in post_thread (post_single raises
\* PostError or RateLimitError, or returns without a tweet id), the invocation
\* has stopped: nothing was attempted for an index greater than i and the
\* result is success=False, failed_at=i, tweet_ids = the seeded previous ids
\* followed, in order, by the ids of the items posted before i in this
\* invocation.
C1_StopsAtFailingItem ==
    \A t \in Tasks :
        ItemFailed(t) =>
            LET i == obs[t].failedItem
                r == th[t].result
            IN /\ th[t].pc = "done"
               /\ r.success = FALSE
               /\ r.failed_at = i
               /\ r.tweet_ids = args[t].previous_tweet_ids \o IdsOf(obs[t].newIds)
               /\ CoversInOrder(obs[t].newIds, args[t].resume_from, i - 1)
               /\ \A j \in Indices :
                     j > i => /\ obs[t].calls[j] = 0
                              /\ obs[t].uploads[j] = 0
                              /\ obs[t].entered[j] = 0
                              /\ obs[t].paces[j] = 0

(* a fresh thread failed at index 1: only index 0's id is reported *)
C1_Witness ==
    /\ ItemFailed(1)
    /\ args[1].resume_from = 0 /\ args[1].previous_tweet_ids = <<>>
    /\ th[1].result.failed_at = 1
    /\ th[1].result.tweet_ids = <<NewTweetId(1, 1, 0)>>
    /\ obs[1].calls[1] > 0

(* previous_tweet_ids are the ids of items 0..resume_from-1 *)
Consistent(t) == Len(args[t].previous_tweet_ids) = args[t].resume_from

\* C2: an invocation with resume_from = k and previous_tweet_ids = the ids of
\* items 0..k-1 makes post calls only for indices k..len(texts)-1, never for an
\* index below k; on success it returns previous_tweet_ids followed by the new
\* ids in index order; a failed invocation chained with such a resume has
\* posted every item of the thread exactly once when it succeeds.
C2_ResumePostsOnlyRemainder ==
    \A t \in Tasks :
        (Started(t) /\ Consistent(t)) =>
            /\ \A j \in Indices :
                  j < args[t].resume_from =>
                      /\ obs[t].calls[j] = 0
                      /\ obs[t].uploads[j] = 0
            /\ (th[t].pc = "done" /\ th[t].result.success) =>
                  /\ th[t].result.tweet_ids =
                        args[t].previous_tweet_ids \o IdsOf(obs[t].newIds)
                  /\ CoversInOrder(obs[t].newIds, args[t].resume_from, NumTexts - 1)
                  /\ \A j \in Indices :
                        chain[t].posted[j] = (IF j >= chain[t].first_from THEN 1 ELSE 0)

(* a fresh thread failed at index 1, was resumed from 1 and completed *)
C2_Witness ==
    /\ chain[1].invocations = 2 /\ chain[1].first_from = 0
    /\ Consistent(1) /\ args[1].resume_from = 1
    /\ th[1].pc = "done" /\ th[1].result.success
    /\ Len(th[1].result.tweet_ids) = NumTexts

(* the reply target an item's post calls must carry *)
IsChainTarget(t, i, reply) ==
    IF i = args[t].resume_from
    THEN reply = (IF args[t].previous_tweet_ids = <<>> THEN NoId
                  ELSE Last(args[t].previous_tweet_ids))
    ELSE \E k \in 1 .. Len(obs[t].newIds) : obs[t].newIds[k] = <<i - 1, reply>>

\* C3: the reply target sent with each item is the id of the last successfully
\* posted item of the chain: none for the first item of a fresh thread, the last
\* element of previous_tweet_ids for the first item of a resumed invocation, and
\* otherwise the id returned for index i-1.
C3_ReplyTargetIsLastPosted ==
    \A t \in Tasks : \A i \in Indices :
        obs[t].calls[i] > 0 => IsChainTarget(t, i, obs[t].replySent[i])

(* texts [A,B,C] of a fresh thread all posted: B replied to A, C to B *)
C3_Witness ==
    /\ args[1].resume_from = 0 /\ args[1].previous_tweet_ids = <<>>
    /\ th[1].pc = "done" /\ th[1].result.success
    /\ obs[1].replySent[0] = NoId
    /\ obs[1].replySent[1] = NewTweetId(1, 1, 0)
    /\ obs[1].replySent[2] = NewTweetId(1, 1, 1)

(* item j was posted in this invocation *)
Accepted(o, j) == \E k \in 1 .. Len(o.newIds) : o.newIds[k][1] = j

(* one step of an invocation of task t keeps the items in sequence *)
C4_Step(t) ==
    /\ (th[t].pc # "done" /\ th'[t].idx # th[t].idx) =>
          /\ th'[t].idx = th[t].idx + 1
          /\ obs'[t].newIds = Append(obs[t].newIds, <<th[t].idx, th'[t].last_tweet_id>>)
    /\ \A i \in Indices :
          (th[t].pc # "done" /\ (obs'[t].paces[i] > obs[t].paces[i]
                                  \/ obs'[t].entered[i] > obs[t].entered[i])) =>
              /\ \A j \in Indices :
                    (args[t].resume_from <= j /\ j < i) => Accepted(obs[t], j)
              /\ \A j \in Indices :
                    j > i => /\ obs[t].entered[j] = 0
                             /\ obs[t].paces[j] = 0
                             /\ obs[t].calls[j] = 0
              /\ obs[t].entered[i] = 0
    /\ (th'[t].pc = "done" /\ obs'[t].failedItem = NoIndex) => th'[t].result.success
    /\ (th'[t].pc = "done" /\ th'[t].result.success) =>
          /\ th'[t].result.failed_at = NoIndex
          /\ obs'[t].failedItem = NoIndex
          /\ CoversInOrder(obs'[t].newIds, args'[t].resume_from, NumTexts - 1)
          /\ th'[t].result.tweet_ids = args'[t].previous_tweet_ids \o IdsOf(obs'[t].newIds)

\* C4: within one invocation items are attempted strictly in increasing index
\* order, and the attempt for index i+1 (its pacing delay included) starts only
\* after the post for index i succeeded; an invocation in which no item fails
\* ends with success=True, failed_at unset and exactly one id per item from
\* resume_from to the last index, in order.
C4_SequentialInOrder == [][\A t \in Tasks : C4_Step(t)]_vars

(* a thread resumed at index 1 with one previous id ran to completion *)
C4_Witness ==
    /\ chain[1].invocations = 1
    /\ args[1].resume_from = 1 /\ Len(args[1].previous_tweet_ids) = 1
    /\ th[1].pc = "done" /\ th[1].result.success
    /\ Len(obs[1].newIds) = NumTexts - 1

RECURSIVE SumUpTo(_, _)
SumUpTo(f, n) == IF n < 0 THEN 0 ELSE f[n] + SumUpTo(f, n - 1)

(* post_single was entered for item i, or the loop body for i has begun   *)
(* (its pacing delay is awaited, or post_single is about to be called)     *)
Attempted(t, i) ==
    obs[t].entered[i] > 0 \/ (th[t].pc \in {"pacing", "single"} /\ th[t].idx = i)

AttemptedCount(t) == Cardinality({i \in Indices : Attempted(t, i)})

\* C5: post_thread awaits exactly one pacing delay before each item whose index
\* is greater than resume_from and none before the item at resume_from, so an
\* invocation that attempts n items awaits exactly n-1 pacing delays, and every
\* pacing delay lies in [2.5, 3.5] seconds (25..35 tenths).
C5_PacingBetweenItems ==
    \A t \in Tasks :
        /\ \A i \in Indices :
              obs[t].paces[i] =
                 (IF Attempted(t, i) /\ i > args[t].resume_from THEN 1 ELSE 0)
        /\ SumUpTo(obs[t].paces, NumTexts - 1) =
              (IF AttemptedCount(t) = 0 THEN 0 ELSE AttemptedCount(t) - 1)
        /\ th[t].pc = "pacing" => (25 <= ps[t].delay /\ ps[t].delay <= 35)

(* a thread resumed at index 1 is awaiting the pacing delay before index 2 *)
C5_Witness ==
    /\ args[1].resume_from = 1
    /\ th[1].pc = "pacing" /\ th[1].idx = 2
    /\ obs[1].paces[1] = 0 /\ obs[1].paces[2] = 1
    /\ ps[1].delay = 35

(* post-creation calls for item i that got a 2xx response *)
Successes(t, i) == obs[t].calls[i] - obs[t].fails[i]

\* C6: post_single makes at most max_retries post-creation calls for one item
\* and stops at the first successful response: an item whose first k calls fail
\* (k < max_retries) and whose call k+1 succeeds is returned after exactly k+1
\* calls, with that response's id.
C6_RetriesStopAtSuccess ==
    \A t \in Tasks : \A i \in Indices :
        /\ obs[t].calls[i] <= args[t].max_retries
        /\ Successes(t, i) \in {0, 1}
        /\ Successes(t, i) = 1 =>
              /\ obs[t].fails[i] < args[t].max_retries
              /\ ~(th[t].idx = i /\ th[t].pc \in {"post", "backoff"})
        /\ Accepted(obs[t], i) =>
              /\ obs[t].calls[i] = obs[t].fails[i] + 1
              /\ <<i, NewTweetId(t, chain[t].invocations, i)>> \in
                    {obs[t].newIds[k] : k \in 1 .. Len(obs[t].newIds)}

(* one failed call, then a 2xx: the item was posted after exactly 2 calls *)
C6_Witness ==
    /\ args[1].max_retries = 2
    /\ obs[1].fails[0] = 1 /\ obs[1].calls[0] = 2
    /\ Accepted(obs[1], 0)

(* the message of e names the platform's error message *)
CarriesPlatformMessage(e) ==
    e.msg \in {"Failed to post tweet: platform message",
               "Failed to post tweet: Failed to post tweet: platform message"}

(* the invocation ended on a post-creation call that did not succeed *)
EndedOnFailedPost(t) ==
    /\ th[t].pc \in {"done", "crashed"}
    /\ obs[t].lastCall = "tweet"
    /\ obs[t].lastResp \notin {"created", "created_noid"}

\* C7: when no retries remain post_single fails by raising and never returns a
\* result: RateLimitError carrying the rate-limit-reset hint (or 'unknown' when
\* the header is absent) if the final attempt's response is 429, and PostError
\* carrying the platform's error message if it is any other 4xx/5xx.
C7_ExhaustedRetriesRaise ==
    \A t \in Tasks :
        EndedOnFailedPost(t) =>
            /\ obs[t].raised.type \in {"PostError", "RateLimitError"}
            /\ obs[t].lastResp = "429_reset" =>
                  obs[t].raised = [type |-> "RateLimitError",
                                   msg |-> "Rate limit exceeded. Reset at: reset_time"]
            /\ obs[t].lastResp = "429_noreset" =>
                  obs[t].raised = [type |-> "RateLimitError",
                                   msg |-> "Rate limit exceeded. Reset at: unknown"]
            /\ obs[t].lastResp = "error" =>
                  /\ obs[t].raised.type = "PostError"
                  /\ CarriesPlatformMessage(obs[t].raised)

(* the upload call of the current item failed *)
UploadFailed(t) ==
    /\ obs[t].lastCall = "upload"
    /\ obs[t].lastResp \in {"upload_error", "transport_exc"}

\* C8: media is uploaded only for the item at index 0 and only when media was
\* supplied; the upload call precedes the item's post-creation call; every
\* failure of the upload call (error status or transport failure) surfaces as
\* PostError with no post submitted for the item, and post_thread reports it as
\* a failed result at that index.
C8_UploadFailureIsPostError ==
    \A t \in Tasks :
        /\ \A i \in Indices :
              obs[t].uploads[i] > 0 => (i = 0 /\ args[t].media_first)
        /\ th[t].pc \in {"upload", "meta"} => obs[t].calls[th[t].idx] = 0
        /\ UploadFailed(t) =>
              /\ obs[t].raised.type = "PostError"
              /\ obs[t].calls[th[t].idx] = 0
              /\ th[t].pc = "done"
              /\ th[t].result.success = FALSE
              /\ th[t].result.failed_at = th[t].idx

(* every step task t can take *)
TaskStep(t) ==
    \/ ThreadReturn(t) \/ ThreadPace(t) \/ ThreadFirst(t) \/ PaceDone(t)
    \/ PostSingleBegin(t) \/ UploadMedia(t) \/ AttachAltText(t)
    \/ PostTweet(t) \/ BackoffDone(t)

Unfinished(t) == th[t].pc \notin {"idle", "done", "crashed"}

\* C9: the pacing delay and the retry backoff delay are non-blocking waits:
\* while one invocation waits in either delay, another post_thread invocation
\* running on the same event loop can take steps.
C9_DelaysDoNotBlock ==
    \A t \in Tasks : \A u \in Tasks \ {t} :
        (th[t].pc \in {"pacing", "backoff"} /\ Unfinished(u)) => ENABLED TaskStep(u)

----------------------------------------------------------------------------
(* Properties of the review handlers *)

\* C10: at most one task processes a given Run at a time: of two approve/post
\* requests for the same Run at most one takes the approval-and-post
\* transition, so no Run is posted twice.
C10_AtMostOneApproval ==
    \A id \in DOMAIN runs : approvals[id] <= 1

----------------------------------------------------------------------------
(* Properties of duplicate detection *)

(* the lookup of the returned call found a Run *)
LookupMatched == ExistingRuns(runs, call.args.account_id, call.args.canonical_url) # {}

\* C11: check_duplicate returns exactly the tabulated pair for every
\* combination of lookup result, mode in {auto, review} and force: no match
\* gives (is_duplicate, should_block) = (false, false); a match in auto mode
\* without force gives (true, true); a match in auto mode with force gives
\* (true, false); a match in review mode gives (true, false) whatever force is.
C11_PolicyTable ==
    call.pc = "returned" =>
        LET a == call.args
            pair == <<call.result.is_duplicate, call.result.should_block>>
        IN  /\ ~LookupMatched => pair = <<FALSE, FALSE>>
            /\ (LookupMatched /\ a.mode = "auto" /\ ~a.force) => pair = <<TRUE, TRUE>>
            /\ (LookupMatched /\ a.mode = "auto" /\ a.force) => pair = <<TRUE, FALSE>>
            /\ (LookupMatched /\ a.mode = "review") => pair = <<TRUE, FALSE>>

(* a forced submission in review mode that matched an earlier Run *)
C11_Witness ==
    /\ call.pc = "returned"
    /\ LookupMatched
    /\ call.args.mode = "review" /\ call.args.force
    /\ call.result.is_duplicate /\ ~call.result.should_block

\* C12: for every content of the Run store, check_duplicate reports
\* is_duplicate exactly when some Run has the call's account, a canonical URL
\* equal to the call's url (a null canonical URL never matches) and status
\* completed or approved; Runs with status submitted, review, posting or
\* failed, and Runs of another account, never make a submission a duplicate.
C12_DuplicateIffPostedMatch ==
    call.pc = "returned" =>
        (call.result.is_duplicate <=>
            \E id \in DOMAIN runs :
                /\ runs[id].account_id = call.args.account_id
                /\ runs[id].canonical_url # Null
                /\ runs[id].canonical_url = call.args.canonical_url
                /\ runs[id].status \in {"completed", "approved"})

(* a store holding a failed Run of the same account and URL, a completed  *)
(* Run of the other account and no posted Run of this account: no duplicate *)
C12_Witness ==
    /\ call.pc = "returned"
    /\ ~call.result.is_duplicate
    /\ \E id \in DOMAIN runs :
          /\ runs[id].account_id = call.args.account_id
          /\ runs[id].canonical_url = call.args.canonical_url
          /\ runs[id].status = "failed"
    /\ \E id \in DOMAIN runs :
          /\ runs[id].account_id # call.args.account_id
          /\ runs[id].canonical_url = call.args.canonical_url
          /\ runs[id].status = "completed"

----------------------------------------------------------------------------
(* Properties of the budget gate *)

Max(a, b) == IF a >= b THEN a ELSE b

\* C19: within_budget(estimate, cap) returns true exactly when
\* max(estimate, 0) <= cap: an estimate equal to the cap passes, any estimate
\* above the cap fails, a negative estimate is treated as zero, and the cap is
\* 0.02 USD when the caller passes none.
C19_InclusiveClampedGate ==
    call.pc = "returned" =>
        LET e == call.args.estimate_usd
            cap == IF call.args.cap_given THEN call.args.cap_usd ELSE 200
        IN  /\ call.result <=> (Max(e, 0) <= cap)
            /\ e = cap /\ cap >= 0 => call.result
            /\ e > cap /\ e >= 0 => ~call.result
            /\ e < 0 => (call.result <=> 0 <= cap)

(* an estimate of exactly 0.02 USD passes the default cap *)
C19_Witness ==
    /\ call.pc = "returned"
    /\ ~call.args.cap_given
    /\ call.args.estimate_usd = 200
    /\ call.result

----------------------------------------------------------------------------
(* Properties of URL canonicalization *)

(* canonicalize(u) with redirect following disabled *)
CanonicalOf(u) == canonicalize(u, <<>>, FALSE, DefaultMaxRedirects)

(* the call has returned a URL *)
Canonicalized == call.pc = "returned" /\ call.result.ok

(* the call has returned a URL and followed no redirect *)
Normalized == Canonicalized /\ ~call.args.follow_redirects

\* C13: canonicalize without redirect following is idempotent: for every
\* input u on which canonicalize succeeds, canonicalize(canonicalize(u))
\* succeeds and equals canonicalize(u).
C13_Idempotent ==
    Normalized =>
        /\ CanonicalOf(call.result.url).ok
        /\ CanonicalOf(call.result.url).url = call.result.url

(* the parts of the input around its query string: the text up to and   *)
(* with the "?", the fields between the "&", the text from the "#" on   *)
QueryOf(u) ==
    LET text == strip(u)
        hash == Find(text, {"#"}, 1)
        before_hash == IF hash = 0 THEN text ELSE SubSeq(text, 1, hash - 1)
        mark == Find(before_hash, {"?"}, 1)
    IN  [head |-> IF mark = 0 THEN before_hash ELSE SubSeq(before_hash, 1, mark),
         fields |-> IF mark = 0 THEN <<>> ELSE split(From(before_hash, mark + 1), "&"),
         tail |-> IF hash = 0 THEN <<>> ELSE From(text, hash)]

KeyOf(field) == ParseField(field)[1]

(* the orders of n fields: order[k] is the field that comes k-th *)
Orders(n) == {order \in [1 .. n -> 1 .. n] : \A i \in 1 .. n : \E k \in 1 .. n : order[k] = i}

(* order moves fields of different keys only *)
KeepsSameKeyOrder(fields, order) ==
    \A k, l \in 1 .. Len(fields) :
        (k < l /\ KeyOf(fields[order[k]]) = KeyOf(fields[order[l]]))
            => order[k] < order[l]

Reordered(q, order) ==
    q.head \o join([k \in 1 .. Len(q.fields) |-> q.fields[order[k]]], "&") \o q.tail

(* the (name, value) pairs of a URL's query string, and those of one key *)
PairsOf(u) == parse_qsl(urlparse(AddScheme(strip(u))).query)
ValuesOf(pairs, key) == SelectSeq(pairs, LAMBDA p : p[1] = key)

\* C14: the result of canonicalize (redirect following disabled) does not
\* depend on the order in which differently-keyed query parameters appear
\* in the input: the remaining pairs are emitted sorted by key, and the values
\* of one key keep their original relative order.
C14_QueryOrderIndependent ==
    Normalized =>
        LET q == QueryOf(call.args.url)
            emitted == PairsOf(call.result.url)
        IN  /\ \A order \in Orders(Len(q.fields)) :
                  KeepsSameKeyOrder(q.fields, order) =>
                      CanonicalOf(Reordered(q, order)) = call.result
            /\ \A i, j \in 1 .. Len(emitted) :
                  i < j => ~StrLess(emitted[j][1], emitted[i][1])
            /\ \A i \in 1 .. Len(emitted) :
                  ValuesOf(emitted, emitted[i][1])
                      = ValuesOf(PairsOf(call.args.url), emitted[i][1])

(* b=3 written before the two values of a: a's values come first, in the *)
(* order they were written                                              *)
C14_Witness ==
    /\ Normalized
    /\ QueryOf(call.args.url).fields = <<<<"b", "=", "3">>, <<"a", "=", "2">>, <<"a", "=", "1">>>>
    /\ urlparse(call.result.url).query
          = <<"a", "=", "2", "&", "a", "=", "1", "&", "b", "=", "3">>

Count(pairs, p) == Cardinality({i \in 1 .. Len(pairs) : pairs[i] = p})

\* C15: for every input URL (redirect following disabled), no query key whose
\* lowercased form is in the tracking deny-list appears in the result of
\* canonicalize, and every other key/value pair of the input query is present
\* in the result.
C15_TrackingRemovedOthersKept ==
    Normalized =>
        LET given == PairsOf(call.args.url)
            emitted == PairsOf(call.result.url)
        IN  /\ \A i \in 1 .. Len(emitted) : lower(emitted[i][1]) \notin TRACKING_PARAMS
            /\ \A i \in 1 .. Len(given) :
                  lower(given[i][1]) \notin TRACKING_PARAMS
                      => Count(emitted, given[i]) = Count(given, given[i])

(* REF=6 (deny-listed in upper case) is dropped, A=4 is kept *)
C15_Witness ==
    /\ Normalized
    /\ QueryOf(call.args.url).fields = <<<<"R", "E", "F", "=", "6">>, <<"A", "=", "4">>>>
    /\ PairsOf(call.result.url) = <<<< <<"A">>, <<"4">> >>>>

(* a URL text put together from a scheme prefix and the parts of a parsed URL *)
Compose(prefix, netloc, path, query, fragment) ==
    prefix \o netloc \o path
    \o (IF query = <<>> THEN <<>> ELSE <<"?">> \o query)
    \o (IF fragment = <<>> THEN <<>> ELSE <<"#">> \o fragment)

(* URLs that differ from the parsed URL g in one respect only *)
SchemeVariants(g) ==
    {Compose(prefix, g.netloc, g.path, g.query, g.fragment) :
        prefix \in {HttpPrefix, HttpsPrefix}}
HostCaseVariants(g) ==
    {Compose(HttpsPrefix, lower(g.netloc), g.path, g.query, g.fragment)}
WwwVariants(g) ==
    {Compose(HttpsPrefix, WwwPrefix \o g.netloc, g.path, g.query, g.fragment)}
DefaultPortVariants(g) ==
    IF ":" \in {g.netloc[i] : i \in 1 .. Len(g.netloc)} THEN {}
    ELSE {Compose(HttpsPrefix, g.netloc \o <<":">> \o port, g.path, g.query, g.fragment) :
            port \in {Port80, Port443}}
FragmentVariants(g) ==
    {Compose(HttpsPrefix, g.netloc, g.path, g.query, fragment) :
        fragment \in {<<>>, <<"f">>}}
TrailingSlashVariants(g) ==
    {Compose(HttpsPrefix, g.netloc, g.path \o Slash, g.query, g.fragment)}

Variants(g) ==
    SchemeVariants(g) \cup HostCaseVariants(g) \cup WwwVariants(g)
    \cup DefaultPortVariants(g) \cup FragmentVariants(g) \cup TrailingSlashVariants(g)

\* C16: canonicalize (redirect following disabled) always emits scheme https
\* and a lowercased host with a leading "www." and a trailing ":80" or ":443"
\* removed, strips the fragment and a trailing path slash (except for the root
\* path), and preserves path case and non-default ports; so inputs differing
\* only in scheme, host case, "www.", default port, fragment or trailing slash
\* yield the same result.
C16_NormalFormAndEquivalence ==
    Normalized =>
        LET given == urlparse(AddScheme(strip(call.args.url)))
            out == urlparse(call.result.url)
        IN  /\ startswith(call.result.url, HttpsPrefix)
            /\ out.netloc = lower(out.netloc)
            /\ \A port \in {Port80, Port443} :
                  ~(Len(out.netloc) > Len(port)
                    /\ From(out.netloc, Len(out.netloc) - Len(port)) = <<":">> \o port)
            /\ out.fragment = <<>>
            /\ endswith(out.path, "/") => out.path = Slash
            /\ \E k \in 0 .. Len(given.path) :
                  /\ SubSeq(given.path, 1, k) \in {out.path, rstrip(out.path, "/")}
                  /\ \A i \in (k + 1) .. Len(given.path) : given.path[i] = "/"
            /\ \A v \in Variants(given) : CanonicalOf(v) = call.result

(* a redirect answered with a Location that resolves to a URL looked up before *)
LedBackToVisited(a, r) ==
    \E i \in 1 .. Len(r.lookups) :
        /\ ~a.http_get[i].raises
        /\ a.http_get[i].status_code \in RedirectStatuses
        /\ a.http_get[i].location \notin {Null, <<>>}
        /\ \E j \in 1 .. i :
              ResolveLocation(r.lookups[i], a.http_get[i].location) = r.lookups[j]

(* every one of the max_redirects lookups was answered by a redirect *)
LimitExhausted(a, r) ==
    /\ Len(r.lookups) = a.max_redirects
    /\ \A i \in 1 .. a.max_redirects :
          /\ ~a.http_get[i].raises
          /\ a.http_get[i].status_code \in RedirectStatuses
          /\ a.http_get[i].location \notin {Null, <<>>}

StopsFollowing(http_response) ==
    \/ http_response.raises
    \/ http_response.status_code \notin RedirectStatuses
    \/ http_response.location \in {Null, <<>>}

\* C18: with redirect following enabled, a transport failure of a lookup, a
\* redirect status without a Location header, or any non-redirect response
\* never fails canonicalization: following stops and the last known URL (the
\* one just looked up) is normalized and returned; with redirect following
\* disabled no lookup is issued at all.
C18_LookupFailureFallsBack ==
    call.pc = "returned" =>
        LET a == call.args
            r == call.result
            n == Len(r.lookups)
        IN  /\ ~a.follow_redirects => n = 0
            /\ \A i \in 1 .. n :
                  StopsFollowing(a.http_get[i]) =>
                      /\ i = n
                      /\ r.ok
                      /\ r.url = Normalize(urlparse(r.lookups[n]))
            /\ (a.follow_redirects /\ r.ok) => (n > 0 /\ StopsFollowing(a.http_get[n]))

(* the second lookup, of the redirect target, fails in transport: the *)
(* target is returned                                                 *)
C18_Witness ==
    /\ call.pc = "returned"
    /\ Len(call.result.lookups) = 2
    /\ call.args.http_get[2].raises
    /\ call.result.ok
    /\ call.result.url = <<"h", "t", "t", "p", "s", ":", "/", "/", "a", ".", "b", "/", "y">>

----------------------------------------------------------------------------
(* Properties of the submit handlers *)

(* a handler has ended and its generation step had returned an estimate *)
Estimated ==
    /\ call.fn \in {"submit", "api_submit"}
    /\ call.pc = "returned"
    /\ call.result.cost # NoCost

TweetsOf(run_id) == {i \in DOMAIN tweets : tweets[i].run_id = run_id}

(* C20: a submission whose generation returned a cost estimate is never   *)
(* aborted by the budget gate: a Run and its tweets are persisted, and    *)
(* the Run's mode is review when the estimate is over the cap, whatever   *)
(* mode was requested, and the requested mode when it is within the cap.  *)
C20_OverBudgetPersistsAsReview ==
    Estimated =>
        /\ call.result.run_id \in DOMAIN runs
        /\ Cardinality(TweetsOf(call.result.run_id)) = NumTexts
        /\ runs[call.result.run_id].mode =
              IF within_budget(call.result.cost, DefaultCapUsd)
              THEN call.args.mode ELSE "review"

(* a submit handler takes its step on the request and environment of call *)
Submitting ==
    /\ call.fn \in {"submit", "api_submit"}
    /\ call.pc = "called"
    /\ call'.pc = "returned"

CanonicalOfRequest ==
    canonicalize(call.args.url, call.env.http_get, TRUE, DefaultMaxRedirects)

(* the completed or approved Runs of the request's account that have the *)
(* request's canonical URL                                               *)
PriorPosted ==
    IF CanonicalOfRequest.ok
    THEN ExistingRuns(runs, call.args.account_id, CanonicalOfRequest.url)
    ELSE {}

StoreUntouched == runs' = runs /\ tweets' = tweets

(* every step of the environment that the pipeline needs succeeds *)
CollaboratorsSucceed ==
    /\ call.args.account_id \in Accounts
    /\ CanonicalOfRequest.ok
    /\ call.env.scrape # "ScraperError"
    /\ call.env.generate_thread \in {"at_cap", "over_cap"}

(* C21: an auto-mode submission without force whose canonical URL is that *)
(* of a completed or approved Run of the same account is rejected before  *)
(* scraping, nothing is persisted, and the rejection is a client-fault    *)
(* signal (4xx) that names the prior Run and is not the generic           *)
(* "Unexpected error" server-fault signal.                                *)
C21_DuplicateBlockIsClientFault ==
    [][(Submitting /\ call.args.mode = "auto" /\ ~call.args.force
            /\ PriorPosted # {})
        => /\ StoreUntouched
           /\ ~call'.result.scraped
           /\ call'.result.kind = "HTTPException"
           /\ call'.result.status_code \in 400 .. 499
           /\ call'.result.previous_run_id \in PriorPosted
           /\ call'.result.detail # "Unexpected error"]_vars

(* C22: a duplicate that is not blocked (review mode, or auto mode with   *)
(* force) goes through the whole pipeline in both handlers when scraping  *)
(* and generation succeed: a new Run is persisted, and in auto mode with  *)
(* force and a cost within the cap the new Run's mode is auto.            *)
C22_UnblockedDuplicatePersists ==
    [][(Submitting /\ PriorPosted # {} /\ CollaboratorsSucceed
            /\ (call.args.mode = "review" \/ call.args.force))
        => /\ Len(runs') = Len(runs) + 1
           /\ call'.result.run_id = Len(runs')
           /\ (call.args.mode = "auto" /\ call.env.generate_thread = "at_cap"
                  => runs'[Len(runs')].mode = "auto")]_vars

(* C23: when canonicalization, scraping or generation fails, the handler *)
(* leaves the store as it found it: no Run and no Tweet is created.      *)
C23_FailureLeavesStoreUnchanged ==
    [][(Submitting
            /\ \/ ~CanonicalOfRequest.ok
               \/ call.env.scrape = "ScraperError"
               \/ call.env.generate_thread \in {"default", "GenerationError"})
        => StoreUntouched]_vars

(* a submission that found a Run, scraped, and failed in the generation *)
C23_Witness ==
    /\ call.fn \in {"submit", "api_submit"}
    /\ call.pc = "returned"
    /\ call.result.scraped
    /\ call.result.cost = NoCost
    /\ call.result.run_id = NoId
    /\ Len(runs) = 1
    /\ tweets = NoTweets

(* the request passes the account lookup, canonicalization and the *)
(* duplicate check, so that the handler calls scrape                *)
ReachesScrape ==
    /\ call.args.account_id \in Accounts
    /\ CanonicalOfRequest.ok
    /\ ~(PriorPosted # {} /\ call.args.mode = "auto" /\ ~call.args.force)

Mapped(status_codes, detail) ==
    /\ call'.result.kind = "HTTPException"
    /\ call'.result.status_code \in status_codes
    /\ call'.result.detail = detail

(* C24: no exception leaves a submit handler; a canonicalization error   *)
(* and a duplicate block reach the caller as client-fault rejections     *)
(* (4xx), a scrape or generation failure as the processing-failed signal *)
(* of its step, any other exception as the generic server-fault signal.  *)
C24_FailuresAreMapped ==
    [][Submitting =>
        /\ call'.result.kind \in {"RedirectResponse", "SubmitResponse", "HTTPException"}
        /\ (call.args.account_id \in Accounts /\ ~CanonicalOfRequest.ok
               => Mapped(400 .. 499, "Invalid URL"))
        /\ (PriorPosted # {} /\ call.args.mode = "auto" /\ ~call.args.force
               => /\ call'.result.kind = "HTTPException"
                  /\ call'.result.status_code \in 400 .. 499
                  /\ call'.result.detail # "Unexpected error")
        /\ (ReachesScrape /\ call.env.scrape = "ScraperError"
               => Mapped(400 .. 599, "Failed to scrape content"))
        /\ (ReachesScrape /\ call.env.scrape # "ScraperError"
                /\ call.env.generate_thread = "GenerationError"
               => Mapped(400 .. 599, "Failed to generate content"))
        /\ (ReachesScrape /\ call.env.scrape # "ScraperError"
                /\ call.env.generate_thread = "default"
               => Mapped({500}, "Unexpected error"))]_vars

HandlerResult(fn, request, env) ==
    IF fn = "submit" THEN submit(runs, tweets, request, env)
    ELSE api_submit(runs, tweets, request, env)

(* the request asks for an image and the page offers none to select, or *)
(* the selected one cannot be fetched or processed                      *)
ImageFails ==
    /\ call.args.include_image
    /\ \/ call.env.scrape = "no_candidates"
       \/ /\ call.env.scrape = "candidates"
          /\ call.env.validate_and_process = "ImageError"

(* the same submission without the image option *)
WithoutImage ==
    HandlerResult(call.fn, [call.args EXCEPT !.include_image = FALSE], call.env)

NewTweets == {i \in DOMAIN tweets' : i > Len(tweets)}

(* C28: a failed image selection or processing changes nothing else: the  *)
(* handler leaves the store and gives the outcome of the same submission  *)
(* without an image, and the tweets it stores have no media alt text.     *)
(* Media alt text is stored only on the tweet with index 0 and only when  *)
(* image bytes were obtained.                                             *)
C28_ImageFailureIsSwallowed ==
    [][Submitting =>
        /\ (ImageFails
              => /\ runs' = WithoutImage.runs
                 /\ tweets' = WithoutImage.tweets
                 /\ call'.result = WithoutImage.outcome
                 /\ \A i \in NewTweets : ~tweets'[i].media_alt)
        /\ \A i \in NewTweets :
              tweets'[i].media_alt => tweets'[i].idx = 0 /\ call'.result.image]_vars

(* a submission that asked for an image, got none, and was persisted *)
(* with its tweets                                                   *)
C28_Witness ==
    /\ call.fn = "submit"
    /\ call.pc = "returned"
    /\ call.args.include_image
    /\ ~call.result.image
    /\ call.result.run_id \in DOMAIN runs
    /\ Cardinality(TweetsOf(call.result.run_id)) = NumTexts
    /\ \A i \in TweetsOf(call.result.run_id) : ~tweets[i].media_alt

----------------------------------------------------------------------------
(* Properties of the life of a Run *)

(* C25: completed and failed are terminal: no handler (approve, regenerate, *)
(* tweet edit, submission) changes the status of a Run that is completed or *)
(* failed.                                                                  *)
C25_TerminalStatusesStay ==
    [][\A id \in DOMAIN runs :
          runs[id].status \in {"completed", "failed"}
             => runs'[id].status = runs[id].status]_vars


----------------------------------------------------------------------------
(* Properties of the retry loop of post_single *)

(* the post-creation attempt of task t fails in this step *)
AttemptFails(t) ==
    /\ th[t].pc = "post"
    /\ obs'[t].fails[th[t].idx] = obs[t].fails[th[t].idx] + 1

\* C26: before the retry that follows the failed attempt number a (counted
\* from 0) post_single waits exactly 2^a seconds (10 * 2^a tenths), whatever
\* the failure was (429, another error status, a transport failure), the retry
\* is attempt a + 1, and nothing is waited after the final failed attempt.
C26_BackoffDoubles ==
    [][\A t \in Tasks :
          /\ (AttemptFails(t) /\ ps[t].attempt < args[t].max_retries - 1)
                => /\ th'[t].pc = "backoff"
                   /\ ps'[t].delay = 10 * (2 ^ ps[t].attempt)
                   /\ ps'[t].attempt = ps[t].attempt
          /\ (AttemptFails(t) /\ ps[t].attempt >= args[t].max_retries - 1)
                => /\ th'[t].pc = "done"
                   /\ ps'[t].delay = 0
          /\ (th'[t].pc = "backoff" /\ th[t].pc # "backoff") => AttemptFails(t)
          /\ (th[t].pc = "backoff" /\ th'[t].pc # "backoff")
                => /\ th'[t].pc = "post"
                   /\ ps'[t].attempt = ps[t].attempt + 1
    ]_vars

(* the wait after the second failed attempt (attempt 1): two seconds *)
C26_Witness ==
    /\ th[1].pc = "backoff"
    /\ ps[1].attempt = 1
    /\ ps[1].delay = 20
    /\ obs[1].fails[th[1].idx] = 2
    /\ obs[1].lastResp = "transport_exc"


----------------------------------------------------------------------------
(* Properties of the redirect following of canonicalize *)

(* a response that sends the caller on: a redirect status with a Location *)
IsFollowed(http_response) ==
    /\ ~http_response.raises
    /\ http_response.status_code \in {301, 302, 303, 307, 308}
    /\ http_response.location \notin {Null, <<>>}

(* a response that ends a chain: a status that is no redirect *)
IsFinal(http_response) ==
    /\ ~http_response.raises
    /\ http_response.status_code \notin {301, 302, 303, 307, 308}

(* the URLs of the chain that starts at url and follows the first k answers *)
RECURSIVE ChainUrls(_, _, _)
ChainUrls(url, http_get, k) ==
    IF k = 0 THEN <<url>>
    ELSE LET before == ChainUrls(url, http_get, k - 1)
         IN  Append(before, ResolveLocation(Last(before), http_get[k].location))

(* the answers are a chain of k redirects, no URL twice, and then a page *)
IsChainOf(url, http_get, k) ==
    /\ Len(http_get) = k + 1
    /\ \A j \in 1 .. k : IsFollowed(http_get[j])
    /\ IsFinal(http_get[k + 1])
    /\ \A i, j \in 1 .. (k + 1) :
          i # j => ChainUrls(url, http_get, k)[i] # ChainUrls(url, http_get, k)[j]

(* a call of canonicalize that follows redirects from a URL with a host *)
FollowingCall ==
    /\ call.fn = "canonicalize" /\ call.pc = "returned"
    /\ call.args.follow_redirects
    /\ call.args.url \in {u \in StartUrls : canonicalize(u, <<>>, FALSE, 0).ok}

\* C27: max_redirects is the maximum number of redirects canonicalize follows:
\* a chain of k redirects with k <= max_redirects that ends in a non-redirect
\* response yields the canonical form of the chain's final URL, and the
\* too-many-redirects error is raised only when more than max_redirects
\* redirects were answered.
C27_FollowsMaxRedirects ==
    FollowingCall =>
        LET url == AddScheme(strip(call.args.url))
            http_get == call.args.http_get
            max_redirects == call.args.max_redirects
        IN  /\ \A k \in 0 .. max_redirects :
                  IsChainOf(url, http_get, k)
                     => /\ call.result.ok
                        /\ call.result.url
                             = canonicalize(Last(ChainUrls(url, http_get, k)),
                                            <<>>, FALSE, 0).url
            /\ call.result.error = "Too many redirects"
                  => \A j \in 1 .. Len(http_get) : IsFollowed(http_get[j])


\* C29: within one post_single call the media upload is performed at most
\* once, before the first post-creation attempt: a retry after a failed
\* attempt posts with the media handle the first attempt had and uploads
\* nothing.
C29_UploadOncePerCall ==
    [][\A t \in Tasks :
          /\ \A i \in Indices :
                obs'[t].uploads[i] > obs[t].uploads[i]
                   => /\ th[t].pc = "upload" /\ th[t].idx = i
                      /\ obs[t].uploads[i] = 0
                      /\ obs[t].calls[i] = 0
                      /\ ps[t].attempt = 0
          /\ th[t].pc \in {"post", "backoff"}
                => /\ th'[t].pc # "upload"
                   /\ th'[t].pc \in {"post", "backoff"}
                         => /\ ps'[t].media_id = ps[t].media_id
                            /\ obs'[t].uploads = obs[t].uploads
    ]_vars

(* the second attempt for an item with media: one upload, one failed post *)
C29_Witness ==
    /\ th[1].pc = "post"
    /\ th[1].idx = 0
    /\ ps[1].attempt = 1
    /\ ps[1].media_id = "media"
    /\ obs[1].uploads[0] = 1
    /\ obs[1].calls[0] = 1


\* C30: every post that post_thread submits for an index greater than 0
\* carries a reply target, for every combination of resume_from and
\* previous_tweet_ids.
C30_LaterPostsAreReplies ==
    \A t \in Tasks : \A i \in Indices :
        (i > 0 /\ obs[t].calls[i] > 0) => obs[t].replySent[i] # NoId

====
